---- MODULE Spec2Model ----
(***************************************************************************)
(* EANBQH: exact area image upsizing with natural biquadratic              *)
(* histosplines.  A model of src/examples/eanbqh.h (overlap map and band   *)
(* coefficients), src/exquires/examples/eanbqh8.c (8-bit engine) and       *)
(* src/exquires/examples/eanbqh.c (16-bit engine).                         *)
(*                                                                         *)
(* Arithmetic.  The overlap map is integer arithmetic and is modelled      *)
(* exactly.  The band coefficients are rational numbers with denominator   *)
(* oo^3 (x is always an integer over oo); they are computed exactly and    *)
(* then stored, as the code stores doubles into float arrays, in binary    *)
(* fixed point with 20 fractional bits.  All float arithmetic of           *)
(* scale_up is modelled in that fixed point, every product rounded.        *)
(***************************************************************************)
EXTENDS Integers, Sequences, FiniteSets, TLC

VARIABLES
  pc,        \* position of main / scale_up
  sc,        \* the run's inputs: engine, PPM header, command line, input stream
  mainv,     \* main's locals: n, m, maxval, nn, mm, scale_up's result, exit status
  rd,        \* scale_up's reading state: i, input_row, samples left in the stream
  a,         \* the control grid a[row][col][channel] (rows read so far)
  band,      \* overlap maps and band vectors of both axes
  syn,       \* the synthesizer's locals: ii, i, j, jj, weights, taps, coef_*
  out,       \* output_row and what has been written to outputfile
  heap,      \* which of the three heap buffers are allocated
  loi,       \* a stand-alone run of last_overlapping_index
  rc,        \* a stand-alone application of ROUND_AND_CLAMP_TO_065535
  ctf        \* a stand-alone call of coarse_to_fine_coefficients

vars == <<pc, sc, mainv, rd, a, band, syn, out, heap, loi, rc, ctf>>

(***************************************************************************)
(* Bounds of the model.                                                    *)
(***************************************************************************)
\* Largest coarse count of the stand-alone overlap-map runs.
MaxCoarseCount == 7
\* The fine count of those runs ranges over coarse .. coarse + MaxFineExtra.
MaxFineExtra == 9

(***************************************************************************)
(* Program constants.                                                      *)
(***************************************************************************)
channels == 3
\* main: "input image must be at least 15x15"
MinDim == 15

(***************************************************************************)
(* last_overlapping_index (eanbqh.h 48-131), one outer iteration per step. *)
(* The record holds the function's locals; written is the set of indices   *)
(* of last_overlapping_kk[] that have been stored to.                      *)
(***************************************************************************)
\* The element of a singleton; { e(v) : v \in {x} } computes x once.
Only(S) == CHOOSE e \in S : TRUE

\* The content of an array entry that has not been assigned.
Unset == 0 - 2^30

LoiStart(o, oo) ==
  [ o |-> o, oo |-> oo, k |-> 0, kk |-> 0,
    k_plus_one_times_oo |-> oo, kk_plus_one_times_o |-> o,
    map |-> [x \in 0..(o - 2) |-> Unset], written |-> {},
    increments |-> 0, done |-> FALSE ]

\* The inner loop with <= for <: kk also moves past a fine cell which ends
\* exactly where the coarse cell ends.
RECURSIVE LoiAdvanceLe(_, _, _, _)
LoiAdvanceLe(kk, kk_plus_one_times_o, k_plus_one_times_oo, o) ==
  IF kk_plus_one_times_o <= k_plus_one_times_oo
  THEN LoiAdvanceLe(kk + 1, kk_plus_one_times_o + o, k_plus_one_times_oo, o)
  ELSE <<kk, kk_plus_one_times_o>>

\* The inner loop comparing the index kk+1, not the product (kk+1)*o, with
\* (k+1)*oo.
RECURSIVE LoiAdvanceUnscaled(_, _, _, _)
LoiAdvanceUnscaled(kk, kk_plus_one_times_o, k_plus_one_times_oo, o) ==
  IF kk + 1 < k_plus_one_times_oo
  THEN LoiAdvanceUnscaled(kk + 1, kk_plus_one_times_o + o, k_plus_one_times_oo, o)
  ELSE <<kk, kk_plus_one_times_o>>

\* The inner while loop (lines 109-113): advance kk while
\* (kk+1)*o < (k+1)*oo.
RECURSIVE LoiAdvance(_, _, _, _)
LoiAdvance(kk, kk_plus_one_times_o, k_plus_one_times_oo, o) ==
  IF kk_plus_one_times_o < k_plus_one_times_oo
  THEN LoiAdvance(kk + 1, kk_plus_one_times_o + o, k_plus_one_times_oo, o)
  ELSE <<kk, kk_plus_one_times_o>>

\* The iteration without k_plus_one_times_oo += oo.
LoiIterProductLags(st) ==
  LET adv == LoiAdvance(st.kk + 1, st.kk_plus_one_times_o + st.o,
                        st.k_plus_one_times_oo, st.o)
  IN [st EXCEPT !.kk = adv[1], !.kk_plus_one_times_o = adv[2],
                !.map = [st.map EXCEPT ![st.k] = adv[1]],
                !.written = st.written \cup {st.k},
                !.increments = st.increments + (adv[1] - st.kk),
                !.k = st.k + 1,
                !.done = ~(st.k + 1 < st.o - 1)]

\* One iteration of the do-while of the oo > o branch (lines 102-120): the
\* unconditional kk++, the inner loop, the store, k++.
LoiIter(st) ==
  LET adv == LoiAdvance(st.kk + 1, st.kk_plus_one_times_o + st.o,
                        st.k_plus_one_times_oo, st.o)
  IN [st EXCEPT !.kk = adv[1], !.kk_plus_one_times_o = adv[2],
                !.map = [st.map EXCEPT ![st.k] = adv[1]],
                !.written = st.written \cup {st.k},
                !.increments = st.increments + (adv[1] - st.kk),
                !.k = st.k + 1,
                !.k_plus_one_times_oo = st.k_plus_one_times_oo + st.oo,
                !.done = ~(st.k + 1 < st.o - 1)]

\* The else branch with k++ ahead of the store's right-hand side.
LoiIdentityIterShifted(st) ==
  [st EXCEPT !.map = [st.map EXCEPT ![st.k] = st.k + 1],
             !.written = st.written \cup {st.k},
             !.k = st.k + 1,
             !.done = ~(st.k + 1 < st.o - 1)]

\* One iteration of the do-while of the else branch (lines 124-129).
LoiIdentityIter(st) ==
  [st EXCEPT !.map = [st.map EXCEPT ![st.k] = st.k],
             !.written = st.written \cup {st.k},
             !.k = st.k + 1,
             !.done = ~(st.k + 1 < st.o - 1)]

LoiStep(st) == IF st.oo > st.o THEN LoiIter(st) ELSE LoiIdentityIter(st)

RECURSIVE LoiRun(_)
LoiRun(st) == IF st.done THEN st ELSE LoiRun(LoiStep(st))

\* The array the call leaves behind.
last_overlapping_index(o, oo) == LoiRun(LoiStart(o, oo)).map

(***************************************************************************)
(* Fixed point.  A float or double value v is the integer round(v * One).  *)
(***************************************************************************)
One == 2^20
Limb == 2^10

\* round(x * y / One) for fixed-point x and y, by 10-bit limbs so that no
\* intermediate product leaves TLC's integers.
FMul(x, y) ==
  LET x0 == x % Limb
      x1 == (x \div Limb) % Limb
      x2 == x \div One
      y0 == y % Limb
      y1 == (y \div Limb) % Limb
      y2 == y \div One
  IN  x2 * y2 * One + (x2 * y1 + x1 * y2) * Limb
      + (x2 * y0 + x1 * y1 + x0 * y2)
      + ((x1 * y0 + x0 * y1 + ((x0 * y0) \div Limb) + (Limb \div 2)) \div Limb)

\* The fraction r/den (0 <= r < den) to `bits` binary places, rounded.
RECURSIVE FracToFix(_, _, _, _)
FracToFix(r, den, bits, acc) ==
  IF bits = 0
  THEN (IF 2 * r >= den THEN acc + 1 ELSE acc)
  ELSE IF 2 * r >= den
       THEN FracToFix(2 * r - den, den, bits - 1, 2 * acc + 1)
       ELSE FracToFix(2 * r, den, bits - 1, 2 * acc)

\* round(num / den * One), den > 0.
FromRatio(num, den) == (num \div den) * One + FracToFix(num % den, den, 20, 0)

\* An integer (a sample, a dimension) as a float.
FromInt(v) == v * One

(***************************************************************************)
(* IEEE double arithmetic for the local coordinate x of                    *)
(* coarse_to_fine_coefficients (eanbqh.h 227-228, 259).  A non-negative    *)
(* double v >= 2^-18 (or 0) is the integer v * 2^70, held as a sequence of *)
(* 10-bit limbs, least significant first; every operation rounds its exact *)
(* result to 53 significant bits, ties to even.                            *)
(***************************************************************************)
DLimb(A, i) == IF i \in DOMAIN A THEN A[i] ELSE 0

\* The limbs of the number whose limb i, before carries, is raw[i].
RECURSIVE DCarry(_, _, _)
DCarry(raw, i, c) ==
  IF i > Len(raw)
  THEN (IF c = 0 THEN <<>> ELSE <<c % Limb>> \o DCarry(raw, i, c \div Limb))
  ELSE <<(raw[i] + c) % Limb>> \o DCarry(raw, i + 1, (raw[i] + c) \div Limb)

DAdd(A, B) ==
  DCarry([i \in 1..(IF Len(A) > Len(B) THEN Len(A) ELSE Len(B)) |-> DLimb(A, i) + DLimb(B, i)], 1, 0)

\* A times the int n, 0 <= n < 2^20.
DMulInt(A, n) == DCarry([i \in 1..Len(A) |-> A[i] * n], 1, 0)

\* 2^s.
DPow2(s) == [i \in 1..((s \div 10) + 1) |-> IF i = (s \div 10) + 1 THEN 2^(s % 10) ELSE 0]

RECURSIVE DLessFrom(_, _, _)
DLessFrom(A, B, i) ==
  IF i = 0 THEN FALSE
  ELSE IF DLimb(A, i) # DLimb(B, i) THEN DLimb(A, i) < DLimb(B, i)
  ELSE DLessFrom(A, B, i - 1)

DLess(A, B) == DLessFrom(A, B, IF Len(A) > Len(B) THEN Len(A) ELSE Len(B))

DEqual(A, B) == ~DLess(A, B) /\ ~DLess(B, A)

RECURSIVE SmallBits(_)
SmallBits(v) == IF v = 0 THEN 0 ELSE 1 + SmallBits(v \div 2)

\* The number of significant bits of A.
RECURSIVE DBitsFrom(_, _)
DBitsFrom(A, i) ==
  IF i = 0 THEN 0
  ELSE IF A[i] # 0 THEN 10 * (i - 1) + SmallBits(A[i])
  ELSE DBitsFrom(A, i - 1)

DBitLength(A) == DBitsFrom(A, Len(A))

\* A mod 2^s and A - A mod 2^s.
DLow(A, s) ==
  [i \in 1..Len(A) |->
     IF i <= s \div 10 THEN A[i]
     ELSE IF i = (s \div 10) + 1 THEN A[i] % 2^(s % 10) ELSE 0]

DHigh(A, s) ==
  [i \in 1..Len(A) |->
     IF i <= s \div 10 THEN 0
     ELSE IF i = (s \div 10) + 1 THEN A[i] - (A[i] % 2^(s % 10)) ELSE A[i]]

\* The double nearest to A (to A plus a positive fraction of a unit when
\* sticky), ties to even.
RoundToDouble(A, sticky) ==
  Only({ IF b <= 53 THEN DCarry(A, 1, 0)
         ELSE Only({ IF \/ DLess(DPow2(b - 54), low)
                        \/ /\ DEqual(low, DPow2(b - 54))
                           /\ (sticky \/ (DLimb(A, ((b - 53) \div 10) + 1) \div 2^((b - 53) % 10)) % 2 = 1)
                     THEN DAdd(DHigh(A, b - 53), DPow2(b - 53))
                     ELSE DCarry(DHigh(A, b - 53), 1, 0) :
                     low \in { DCarry(DLow(A, b - 53), 1, 0) } }) :
         b \in { DBitLength(A) } })

\* The quotient of A by the int n > 0, from limb i down, r the remainder so
\* far: <<limbs of the quotient, remainder>>.
RECURSIVE DDivInt(_, _, _, _)
DDivInt(A, n, i, r) ==
  IF i = 0 THEN <<(<<>>), r>>
  ELSE Only({ <<rest[1] \o <<(r * Limb + A[i]) \div n>>, rest[2]>> :
              rest \in { DDivInt(A, n, i - 1, (r * Limb + A[i]) % n) } })

DZero == <<0>>
DOne == DPow2(70)

\* 1./oo (line 227).
DReciprocal(oo) ==
  Only({ RoundToDouble(q[1], q[2] # 0) : q \in { DDivInt(DPow2(70), oo, Len(DPow2(70)), 0) } })

\* The int n >= 0 converted to double and multiplied by the double A.
DTimesInt(A, n) == RoundToDouble(DMulInt(A, n), FALSE)

\* The sum of two doubles.
DPlus(A, B) == RoundToDouble(DAdd(A, B), FALSE)

(***************************************************************************)
(* coarse_to_fine_coefficients (eanbqh.h 159-448), natural boundary        *)
(* conditions (NOT_A_KNOT is not defined).  x is the double the code       *)
(* holds; xn/oo is the rational it stands for, and every antiderivative    *)
(* value is taken at xn/oo, a rational with denominator oo^3: the          *)
(* operators below return its numerator.                                   *)
(***************************************************************************)
LEFT_BSPLINE(xn, oo)            == xn * xn * xn
CENTER_BSPLINE(xn, oo)          == xn * (3 * oo * oo - xn * ((0 - 3) * oo + xn + xn))
RIGHT_BSPLINE(xn, oo)           == xn * (3 * oo * oo + xn * ((0 - 3) * oo + xn))
LEFT_BDRY_SPLINE(xn, oo)        == xn * (6 * oo * oo - xn * xn)
LEFT_BDRY_LEFT_SPLINE(xn, oo)   == xn * xn * xn
RIGHT_BDRY_SPLINE(xn, oo)       == xn * (3 * oo * oo + xn * (3 * oo - xn))
RIGHT_BDRY_RIGHT_SPLINE(xn, oo) == xn * (3 * oo * oo + xn * ((0 - 3) * oo + xn))
BDRY_INTEGRAL_LEFT_BDRY_SPLINE(oo)      == 5 * oo * oo * oo
BDRY_INTEGRAL_LEFT_BDRY_LEFT_SPLINE(oo) == 1 * oo * oo * oo

\* The state at line 269: locals initialised, no array entry assigned.
CtfStart(o, oo, map) ==
  [ o |-> o, oo |-> oo, map |-> map, phase |-> "first",
    k |-> 0, kk |-> 0, xn |-> 0, last_kk |-> map[0],
    previous_integral_l |-> Unset,
    previous_integral_c |-> 0,
    previous_integral_r |-> 0,
    left     |-> [q \in 0..(oo - 1) |-> Unset],
    center   |-> [q \in 0..(oo - 1) |-> Unset],
    right    |-> [q \in 0..(oo - 1) |-> Unset],
    farright |-> [q \in 0..(o - 2) |-> Unset],
    xs |-> <<>>, fixed |-> FALSE,
    one_over_oo |-> DReciprocal(oo),
    h |-> DTimesInt(DReciprocal(oo), o),
    x |-> DZero ]

\* Lines 273-287: a fine cell inside the first coarse cell.
CtfFirstBody(st) ==
  LET xn == st.xn + st.o
      integral_c == LEFT_BDRY_SPLINE(xn, st.oo)
      integral_r == LEFT_BDRY_LEFT_SPLINE(xn, st.oo)
  IN [st EXCEPT !.x = DPlus(st.x, st.h), !.xn = xn, !.xs = Append(st.xs, xn),
        !.center = [st.center EXCEPT ![st.kk] = integral_c - st.previous_integral_c],
        !.previous_integral_c = integral_c,
        !.right = [st.right EXCEPT ![st.kk] = integral_r - st.previous_integral_r],
        !.previous_integral_r = integral_r,
        !.kk = st.kk + 1]

\* Lines 309-339: the last fine cell which overlaps the first coarse cell,
\* then k = 1 and the kk++ which opens the for loop of the do body.
CtfFirstCrossing(st) ==
  LET xn == (st.kk + 1) * st.o - st.oo
      pl == RIGHT_BSPLINE(xn, st.oo)
      pc2 == CENTER_BSPLINE(xn, st.oo)
      pr == LEFT_BSPLINE(xn, st.oo)
  IN [st EXCEPT !.x = DTimesInt(st.one_over_oo, xn), !.xn = xn, !.xs = Append(st.xs, xn),
        !.previous_integral_l = pl,
        !.center = [st.center EXCEPT ![st.kk] =
            pl + (BDRY_INTEGRAL_LEFT_BDRY_SPLINE(st.oo) - st.previous_integral_c)],
        !.previous_integral_c = pc2,
        !.right = [st.right EXCEPT ![st.kk] =
            pc2 + (BDRY_INTEGRAL_LEFT_BDRY_LEFT_SPLINE(st.oo) - st.previous_integral_r)],
        !.previous_integral_r = pr,
        !.farright = [st.farright EXCEPT ![0] = pr],
        !.k = 1, !.last_kk = st.map[1], !.kk = st.kk + 1,
        !.phase = "interior"]

\* The loop body without its store to left[kk].
CtfInteriorBodyNoLeft(st) ==
  LET xn == st.xn + st.o
      integral_l == RIGHT_BSPLINE(xn, st.oo)
      integral_c == CENTER_BSPLINE(xn, st.oo)
      integral_r == LEFT_BSPLINE(xn, st.oo)
  IN [st EXCEPT !.xn = xn, !.xs = Append(st.xs, xn),
        !.previous_integral_l = integral_l,
        !.center = [st.center EXCEPT ![st.kk] = integral_c - st.previous_integral_c],
        !.previous_integral_c = integral_c,
        !.right = [st.right EXCEPT ![st.kk] = integral_r - st.previous_integral_r],
        !.previous_integral_r = integral_r,
        !.kk = st.kk + 1]

\* Lines 341-353: a fine cell inside an interior coarse cell.
CtfInteriorBody(st) ==
  LET xn == st.xn + st.o
      integral_l == RIGHT_BSPLINE(xn, st.oo)
      integral_c == CENTER_BSPLINE(xn, st.oo)
      integral_r == LEFT_BSPLINE(xn, st.oo)
  IN [st EXCEPT !.x = DPlus(st.x, st.h), !.xn = xn, !.xs = Append(st.xs, xn),
        !.left = [st.left EXCEPT ![st.kk] = integral_l - st.previous_integral_l],
        !.previous_integral_l = integral_l,
        !.center = [st.center EXCEPT ![st.kk] = integral_c - st.previous_integral_c],
        !.previous_integral_c = integral_c,
        !.right = [st.right EXCEPT ![st.kk] = integral_r - st.previous_integral_r],
        !.previous_integral_r = integral_r,
        !.kk = st.kk + 1]

\* The crossing with center[kk] left without the part of the fine cell which
\* lies in the next coarse cell.
CtfCrossingOneCell(st) ==
  LET xn == (st.kk + 1) * st.o - (st.k + 1) * st.oo
      d == st.oo * st.oo * st.oo
      pl == RIGHT_BSPLINE(xn, st.oo)
      pc2 == CENTER_BSPLINE(xn, st.oo)
      pr == LEFT_BSPLINE(xn, st.oo)
      again == st.k + 1 < st.o - 1
  IN [st EXCEPT !.xn = xn, !.xs = Append(st.xs, xn),
        !.left = [st.left EXCEPT ![st.kk] = 1 * d - st.previous_integral_l],
        !.previous_integral_l = pl,
        !.center = [st.center EXCEPT ![st.kk] = 4 * d - st.previous_integral_c],
        !.previous_integral_c = pc2,
        !.right = [st.right EXCEPT ![st.kk] = pc2 + (1 * d - st.previous_integral_r)],
        !.previous_integral_r = pr,
        !.farright = [st.farright EXCEPT ![st.k] = pr],
        !.k = st.k + 1,
        !.last_kk = IF again THEN st.map[st.k + 1] ELSE st.last_kk,
        !.kk = IF again THEN st.kk + 1 ELSE st.kk,
        !.phase = IF again THEN "interior" ELSE "fix_last"]

\* Lines 376-388: the last fine cell which overlaps interior coarse cell k,
\* then ++k and either the next round of the do loop (with its kk++) or the
\* code after it.
CtfCrossing(st) ==
  LET xn == (st.kk + 1) * st.o - (st.k + 1) * st.oo
      d == st.oo * st.oo * st.oo
      pl == RIGHT_BSPLINE(xn, st.oo)
      pc2 == CENTER_BSPLINE(xn, st.oo)
      pr == LEFT_BSPLINE(xn, st.oo)
      again == st.k + 1 < st.o - 1
  IN [st EXCEPT !.x = DTimesInt(st.one_over_oo, xn), !.xn = xn, !.xs = Append(st.xs, xn),
        !.left = [st.left EXCEPT ![st.kk] = 1 * d - st.previous_integral_l],
        !.previous_integral_l = pl,
        !.center = [st.center EXCEPT ![st.kk] = pl + (4 * d - st.previous_integral_c)],
        !.previous_integral_c = pc2,
        !.right = [st.right EXCEPT ![st.kk] = pc2 + (1 * d - st.previous_integral_r)],
        !.previous_integral_r = pr,
        !.farright = [st.farright EXCEPT ![st.k] = pr],
        !.k = st.k + 1,
        !.last_kk = IF again THEN st.map[st.k + 1] ELSE st.last_kk,
        !.kk = IF again THEN st.kk + 1 ELSE st.kk,
        !.phase = IF again THEN "interior" ELSE "fix_last"]

\* The correction applied whatever the ratio.
CtfFixLastAlways(st) ==
  LET pc2 == RIGHT_BDRY_SPLINE(st.xn, st.oo)
  IN [st EXCEPT
        !.right = [st.right EXCEPT ![st.kk] = (st.right[st.kk] - st.previous_integral_c) + pc2],
        !.previous_integral_c = pc2, !.fixed = TRUE,
        !.kk = st.kk + 1, !.phase = "last"]

\* Lines 416-428: the correction of right[kk] when o does not divide oo,
\* then kk++.  fixed records that the body of the if was executed.
CtfFixLast(st) ==
  LET pc2 == RIGHT_BDRY_SPLINE(st.xn, st.oo)
  IN IF st.oo % st.o # 0
     THEN [st EXCEPT
        !.right = [st.right EXCEPT ![st.kk] = (st.right[st.kk] - st.previous_integral_c) + pc2],
        !.previous_integral_c = pc2, !.fixed = TRUE,
        !.kk = st.kk + 1, !.phase = "last"]
     ELSE [st EXCEPT !.kk = st.kk + 1, !.phase = "last"]

\* The loop body with the splines of the interior: the last coarse cell
\* treated like any other.
CtfLastBodyInterior(st) ==
  LET xn == st.xn + st.o
      integral_l == RIGHT_BSPLINE(xn, st.oo)
      integral_c == CENTER_BSPLINE(xn, st.oo)
  IN [st EXCEPT !.xn = xn, !.xs = Append(st.xs, xn),
        !.left = [st.left EXCEPT ![st.kk] = integral_l - st.previous_integral_l],
        !.previous_integral_l = integral_l,
        !.center = [st.center EXCEPT ![st.kk] = integral_c - st.previous_integral_c],
        !.previous_integral_c = integral_c,
        !.kk = st.kk + 1]

\* Lines 436-446: a fine cell inside the last coarse cell.
CtfLastBody(st) ==
  LET xn == st.xn + st.o
      integral_l == RIGHT_BDRY_RIGHT_SPLINE(xn, st.oo)
      integral_c == RIGHT_BDRY_SPLINE(xn, st.oo)
  IN [st EXCEPT !.x = DPlus(st.x, st.h), !.xn = xn, !.xs = Append(st.xs, xn),
        !.left = [st.left EXCEPT ![st.kk] = integral_l - st.previous_integral_l],
        !.previous_integral_l = integral_l,
        !.center = [st.center EXCEPT ![st.kk] = integral_c - st.previous_integral_c],
        !.previous_integral_c = integral_c,
        !.kk = st.kk + 1]

CtfStep(st) ==
  CASE st.phase = "first" ->
         IF st.kk < st.last_kk THEN CtfFirstBody(st) ELSE CtfFirstCrossing(st)
    [] st.phase = "interior" ->
         IF st.kk < st.last_kk THEN CtfInteriorBody(st) ELSE CtfCrossing(st)
    [] st.phase = "fix_last" -> CtfFixLast(st)
    [] st.phase = "last" ->
         IF st.kk < st.oo THEN CtfLastBody(st) ELSE [st EXCEPT !.phase = "done"]
    [] OTHER -> st

RECURSIVE CtfRun(_)
CtfRun(st) == IF st.phase = "done" THEN st ELSE CtfRun(CtfStep(st))

\* A band vector as the float array the caller passed: each assigned entry
\* rounded to fixed point.
StoreFloats(vec, oo) ==
  [q \in DOMAIN vec |->
     IF vec[q] = Unset THEN Unset ELSE FromRatio(vec[q], oo * oo * oo)]

\* The four float arrays after the call.
coarse_to_fine_coefficients(o, oo, map) ==
  LET st == CtfRun(CtfStart(o, oo, map))
  IN [ left     |-> StoreFloats(st.left, oo),
       center   |-> StoreFloats(st.center, oo),
       right    |-> StoreFloats(st.right, oo),
       farright |-> StoreFloats(st.farright, oo) ]

(***************************************************************************)
(* The input stream.  The samples which follow the PPM header are those of *)
(* the picture img, row-major, channel-interleaved; the stream holds the   *)
(* first sc.avail of them.                                                 *)
(***************************************************************************)
\* The 8-bit maximum for both engines.
SampleMaxEightBit(engine) == 255

\* The largest sample of the engine.
SampleMax(engine) == IF engine = 8 THEN 255 ELSE 65535

Pixel(img, r, col, c) ==
  CASE img.kind = "const"   -> img.v
    [] img.kind = "checker" -> IF (r + col) % 2 = 0 THEN 0 ELSE img.v
    [] OTHER                -> (r * 7 + col * 13 + c * 5 + img.v) % 256

\* The sample at stream position p (0-based) of an image n pixels wide.
StreamSample(img, n, p) ==
  Pixel(img, p \div (n * channels), (p % (n * channels)) \div channels, p % channels)

\* The 16-bit engine swaps the two bytes of every sample it reads or writes
\* (eanbqh.c 597-598, 1063-1068); the 8-bit engine has no such step.
ByteSwap(engine, v) ==
  IF engine = 16 THEN (v % 256) * 256 + ((v \div 256) % 256) ELSE v

\* What fread delivers for stream position p: the big-endian sample as the
\* little-endian machine sees it.
StreamWord(engine, img, n, p) == ByteSwap(engine, StreamSample(img, n, p))

(***************************************************************************)
(* The banded solver of scale_up (eanbqh8.c 132-146, 163-394).             *)
(***************************************************************************)
\* A literal with its seventh decimal off by one.
LiteralsC4OffByOne ==
  [C0 |-> 2000000, C1 |-> 2631579, C2 |-> 2676056, C3 |-> 2679245,
   C4 |-> 2679475, C5 |-> 2679491, CLAST |-> 2113249, CINFTY |-> 2679492]

\* The seven decimals of the literals of lines 132-146.
Literals ==
  [C0 |-> 2000000, C1 |-> 2631579, C2 |-> 2676056, C3 |-> 2679245,
   C4 |-> 2679474, C5 |-> 2679491, CLAST |-> 2113249, CINFTY |-> 2679492]

C0     == FromRatio(Literals.C0, 10000000)
C1     == FromRatio(Literals.C1, 10000000)
C2     == FromRatio(Literals.C2, 10000000)
C3     == FromRatio(Literals.C3, 10000000)
C4     == FromRatio(Literals.C4, 10000000)
C5     == FromRatio(Literals.C5, 10000000)
CLAST  == FromRatio(Literals.CLAST, 10000000)
CINFTY == FromRatio(Literals.CINFTY, 10000000)

\* The asymptotic multiplier at every position.
LUConstAsymptotic(k) == CINFTY

\* The schedule one position early: C1 at position 0, CINFTY from position 5.
LUConstOneEarly(k) ==
  CASE k = 0 -> C1 [] k = 1 -> C2 [] k = 2 -> C3 [] k = 3 -> C4
    [] k = 4 -> C5 [] OTHER -> CINFTY

\* The multiplier the unrolled code applies at position k of a row or column.
LUConst(k) ==
  CASE k = 0 -> C0 [] k = 1 -> C1 [] k = 2 -> C2 [] k = 3 -> C3
    [] k = 4 -> C4 [] k = 5 -> C5 [] OTHER -> CINFTY

\* Forward substitution over the sequence v: acc holds positions 0..k-2.
RECURSIVE ForwardSubstitution(_, _, _)
ForwardSubstitution(v, k, acc) ==
  IF k > Len(v) THEN acc
  ELSE ForwardSubstitution(v, k + 1,
         Append(acc, IF k = 1 THEN v[1]
                     ELSE v[k] - FMul(acc[k - 1], LUConst(k - 2))))

\* Back substitution over w, from the last position down: acc holds the
\* solved positions k..Len(w)-1.
RECURSIVE BackSubstitution(_, _, _)
BackSubstitution(w, k, acc) ==
  IF k = 0 THEN acc
  ELSE BackSubstitution(w, k - 1,
         <<IF k = Len(w) THEN FMul(w[k], CLAST)
           ELSE FMul(w[k] - acc[1], LUConst(k - 1))>> \o acc)

Solve1D(v) == BackSubstitution(ForwardSubstitution(v, 1, <<>>), Len(v), <<>>)

\* The reading loop with its last iteration dropped.
ReadLoopStopsEarly(i, m) == i + 2 < m

\* } while (++i<m); (line 278), for i the value before the increment.
ReadLoopContinues(i, m) == i + 1 < m

\* The rescaling by the width ratio alone.
RescaleFactorWidthOnly(m, n, mm, nn) == FromRatio(nn, n)

\* mm_nn_over_m_n (line 62).
RescaleFactor(m, n, mm, nn) == FromRatio(mm * nn, m * n)

\* Lines 175-277: one input row (a sequence of n*channels samples) rescaled
\* and solved along the row, channel by channel.
RowPass(input_row, n, factor) ==
  Only({ [col \in 0..(n - 1) |-> [c \in 0..(channels - 1) |-> solved[c][col + 1]]] :
         solved \in { [c \in 0..(channels - 1) |->
                        Solve1D([k \in 1..n |->
                          FMul(FromInt(input_row[(k - 1) * channels + c + 1]), factor)])] } })

\* Lines 280-393: the grid solved along every column.
ColumnPass(grid, m, n) ==
  Only({ [r \in 1..m |-> [col \in 0..(n - 1) |-> [c \in 0..(channels - 1) |->
            solved[col][c][r]]]] :
         solved \in { [col \in 0..(n - 1) |-> [c \in 0..(channels - 1) |->
                        Solve1D([r \in 1..m |-> grid[r][col][c]])]] } })

(***************************************************************************)
(* Rounding and clamping of a contracted sum x (eanbqh8.c 461,             *)
(* eanbqh.c 884-888): int out = .5 + x truncates toward zero.              *)
(***************************************************************************)
\* The conversion of x/unit to int: toward zero.
TruncToInt(x, unit) == IF x >= 0 THEN x \div unit ELSE 0 - ((0 - x) \div unit)

\* The macro without its test out < 0.
ROUND_AND_CLAMP_NoLowerClamp(x, unit, maxv) ==
  LET outv == TruncToInt(x + (unit \div 2), unit)
  IN IF outv > maxv THEN maxv ELSE outv

\* The macro without the .5: the fraction of x is dropped.
ROUND_AND_CLAMP_NoRounding(x, unit, maxv) ==
  LET outv == TruncToInt(x, unit)
  IN IF outv > maxv THEN maxv ELSE IF outv < 0 THEN 0 ELSE outv

\* x is the rational x/unit.
ROUND_AND_CLAMP_TO_065535(x, unit, maxv) ==
  LET outv == TruncToInt(x + (unit \div 2), unit)
  IN IF outv > maxv THEN maxv ELSE IF outv < 0 THEN 0 ELSE outv

(***************************************************************************)
(* The tensor synthesizer of scale_up (eanbqh8.c 416-1840).  The code      *)
(* holds six copies of one horizontal sweep, one per kind of output row:   *)
(*   first      416-633    fine rows inside the first coarse row           *)
(*   first_last 639-871    last fine row overlapping the first coarse row  *)
(*   mid        885-1118   fine rows inside coarse row i, 1 <= i <= m-3    *)
(*   mid_last   1126-1382  last fine row overlapping coarse row i          *)
(*   penult     1395-1629  fine rows of the second to last coarse row      *)
(*   last       1635-1840  fine rows of the last coarse row                *)
(* A tap a_<row>_<position> is modelled by the grid coordinates <<r, col>> *)
(* it was loaded from; its value for channel c is a[r][col][c] (the grid   *)
(* is not written during synthesis).                                       *)
(***************************************************************************)
TapRows == <<"top", "middle", "bottom", "farbottom">>
TapRowSet == {"top", "middle", "bottom", "farbottom"}

\* The four tap rows in every row of an interior coarse row.
RowsOfFarInEveryMidRow(kind) ==
  CASE kind = "first"      -> {"middle", "bottom"}
    [] kind = "first_last" -> {"middle", "bottom", "farbottom"}
    [] kind = "mid"        -> {"top", "middle", "bottom", "farbottom"}
    [] kind = "mid_last"   -> {"top", "middle", "bottom", "farbottom"}
    [] kind = "penult"     -> {"top", "middle", "bottom"}
    [] OTHER               -> {"top", "middle"}

\* The second to last coarse row treated like an interior one: the
\* farbottom taps are summed as well.
RowsOfFarInPenult(kind) ==
  CASE kind = "first"      -> {"middle", "bottom"}
    [] kind = "first_last" -> {"middle", "bottom", "farbottom"}
    [] kind = "mid"        -> {"top", "middle", "bottom"}
    [] kind = "mid_last"   -> {"top", "middle", "bottom", "farbottom"}
    [] kind = "penult"     -> {"top", "middle", "bottom", "farbottom"}
    [] OTHER               -> {"top", "middle"}

\* The tap rows a sweep of this kind loads, shifts and sums.
RowsOf(kind) ==
  CASE kind = "first"      -> {"middle", "bottom"}
    [] kind = "first_last" -> {"middle", "bottom", "farbottom"}
    [] kind = "mid"        -> {"top", "middle", "bottom"}
    [] kind = "mid_last"   -> {"top", "middle", "bottom", "farbottom"}
    [] kind = "penult"     -> {"top", "middle", "bottom"}
    [] OTHER               -> {"top", "middle"}

\* The rows of the last coarse row taken one grid row too low: i+1 and
\* i+2 with i = m-2.
GridRowLastShifted(kind, i, m, row) ==
  CASE kind \in {"first", "first_last"} ->
         (CASE row = "middle" -> 0 [] row = "bottom" -> 1 [] OTHER -> 2)
    [] kind \in {"mid", "mid_last"} ->
         (CASE row = "top" -> i - 1 [] row = "middle" -> i
            [] row = "bottom" -> i + 1 [] OTHER -> i + 2)
    [] kind = "penult" ->
         (CASE row = "top" -> m - 3 [] row = "middle" -> m - 2 [] OTHER -> m - 1)
    [] OTHER ->
         (CASE row = "top" -> m - 1 [] OTHER -> m)

\* The grid row the pointer of a tap row is set to when a sweep starts.
GridRow(kind, i, m, row) ==
  CASE kind \in {"first", "first_last"} ->
         (CASE row = "middle" -> 0 [] row = "bottom" -> 1 [] OTHER -> 2)
    [] kind \in {"mid", "mid_last"} ->
         (CASE row = "top" -> i - 1 [] row = "middle" -> i
            [] row = "bottom" -> i + 1 [] OTHER -> i + 2)
    [] kind = "penult" ->
         (CASE row = "top" -> m - 3 [] row = "middle" -> m - 2 [] OTHER -> m - 1)
    [] OTHER ->
         (CASE row = "top" -> m - 2 [] OTHER -> m - 1)

\* The vertical weight of a tap row for output row ii of coarse row i.
RowWeight(bnd, row, ii, i) ==
  CASE row = "top"    -> bnd.top[ii]
    [] row = "middle" -> bnd.middle[ii]
    [] row = "bottom" -> bnd.bottom[ii]
    [] OTHER          -> bnd.farbottom[i]

\* The value of a tap for channel c.
TapValue(grid, tap, c) == grid[tap[1] + 1][tap[2]][c]

\* top_ii * a_top_<pos>[c] + middle_ii * a_middle_<pos>[c] + ..., over the
\* rows of the sweep.
RECURSIVE WeightedTaps(_, _, _, _, _, _, _)
WeightedTaps(grid, rows, w, taps, pos, c, idx) ==
  IF idx > Len(TapRows) THEN 0
  ELSE (IF TapRows[idx] \in rows
        THEN FMul(w[TapRows[idx]], TapValue(grid, taps[TapRows[idx]][pos], c))
        ELSE 0)
       + WeightedTaps(grid, rows, w, taps, pos, c, idx + 1)

Coef(grid, rows, w, taps, pos) ==
  [c \in 0..(channels - 1) |-> WeightedTaps(grid, rows, w, taps, pos, c, 1)]

\* The contracted sum of fine column jj, channel c, over the band vectors
\* named in terms; far is the farright-weighted term (0 when there is none).
Contract(bnd, coef, terms, jj, c, far) ==
    (IF "left"   \in terms THEN FMul(coef.left[c],   bnd.left[jj])   ELSE 0)
  + (IF "center" \in terms THEN FMul(coef.center[c], bnd.center[jj]) ELSE 0)
  + (IF "right"  \in terms THEN FMul(coef.right[c],  bnd.right[jj])  ELSE 0)
  + far

\* The loops over jj with <= for <: fine column hi is stored as well.
PlainCellsInclusive(bnd, coef, terms, lo, hi, maxv) ==
  [p \in 1..((IF hi >= lo THEN hi - lo + 1 ELSE 0) * channels) |->
     ROUND_AND_CLAMP_TO_065535(
       Contract(bnd, coef, terms, lo + ((p - 1) \div channels),
                (p - 1) % channels, 0), One, maxv)]

\* The samples stored for fine columns lo..hi-1 (none when hi <= lo).
PlainCells(bnd, coef, terms, lo, hi, maxv) ==
  [p \in 1..((IF hi > lo THEN hi - lo ELSE 0) * channels) |->
     ROUND_AND_CLAMP_TO_065535(
       Contract(bnd, coef, terms, lo + ((p - 1) \div channels),
                (p - 1) % channels, 0), One, maxv)]

\* The samples stored for the last fine column jj which overlaps coarse
\* column j: the farright taps weighted by farright[j] are added.
BoundaryCell(grid, bnd, rows, w, taps, coef, terms, jj, j, maxv) ==
  Only({ [p \in 1..channels |->
           ROUND_AND_CLAMP_TO_065535(
             Contract(bnd, coef, terms, jj, p - 1, FMul(far[p - 1], bnd.farright[j])),
             One, maxv)] :
         far \in { Coef(grid, rows, w, taps, "farright") } })

\* The fine columns lo..hi-1, once per pixel stored.
Columns(lo, hi) == [p \in 1..(IF hi > lo THEN hi - lo ELSE 0) |-> lo + p - 1]

\* v once per pixel stored for the fine columns lo..hi-1.
Repeat(v, lo, hi) == [p \in 1..(IF hi > lo THEN hi - lo ELSE 0) |-> v]

\* The arguments of ROUND_AND_CLAMP_TO_065535 for the fine columns lo..hi-1:
\* the contracted sums before rounding.
PlainSums(bnd, coef, terms, lo, hi) ==
  [p \in 1..((IF hi > lo THEN hi - lo ELSE 0) * channels) |->
     Contract(bnd, coef, terms, lo + ((p - 1) \div channels), (p - 1) % channels, 0)]

\* The arguments of ROUND_AND_CLAMP_TO_065535 for the last fine column jj
\* which overlaps coarse column j.
BoundarySums(grid, bnd, rows, w, taps, coef, terms, jj, j) ==
  Only({ [p \in 1..channels |->
           Contract(bnd, coef, terms, jj, p - 1, FMul(far[p - 1], bnd.farright[j]))] :
         far \in { Coef(grid, rows, w, taps, "farright") } })

\* The coarse row an output row of this kind belongs to (the rows of the
\* last coarse row are synthesized with i left at m-2).
CoarseRowOf(kind, i, m) == IF kind = "last" THEN m - 1 ELSE i

\* The taps at the start of a sweep: center, right and farright of every
\* row of the sweep loaded from columns 0, 1 and 2.
LoadTaps(kind, i, m, taps) ==
  [row \in TapRowSet |->
     IF row \in RowsOf(kind)
     THEN [taps[row] EXCEPT !.center   = <<GridRow(kind, i, m, row), 0>>,
                            !.right    = <<GridRow(kind, i, m, row), 1>>,
                            !.farright = <<GridRow(kind, i, m, row), 2>>]
     ELSE taps[row]]

\* The slide without its load: farright keeps the value it had.
ShiftWithoutLoad(tap, ptr) ==
  [left |-> tap.center, center |-> tap.right, right |-> tap.farright,
   farright |-> tap.farright]

\* The slide at coarse column j, 1 <= j <= n-3: three taps kept, one loaded
\* through the row's pointer.
ShiftAndLoad(tap, ptr) ==
  [left |-> tap.center, center |-> tap.right, right |-> tap.farright,
   farright |-> ptr]

\* Every row of the sweep slid the same way.
SlideTapsUniform(kind, taps, ptr) ==
  [row \in TapRowSet |->
     IF row \in RowsOf(kind) THEN ShiftAndLoad(taps[row], ptr[row])
     ELSE taps[row]]

\* The slide as the code has it: in the mid_last copy (lines 1226-1229) the
\* farbottom taps are assigned from the bottom taps just shifted.
SlideTaps(kind, taps, ptr) ==
  LET u == SlideTapsUniform(kind, taps, ptr)
  IN IF kind = "mid_last"
     THEN [u EXCEPT !["farbottom"] =
             [left     |-> u["bottom"].center,
              center   |-> u["bottom"].right,
              right    |-> u["bottom"].farright,
              farright |-> ptr["farbottom"]]]
     ELSE u

\* The slide at j = n-2: nothing is loaded, farright keeps its value.
SlideTapsPenult(kind, taps) ==
  [row \in TapRowSet |->
     IF row \in RowsOf(kind)
     THEN [taps[row] EXCEPT !.left = taps[row].center,
                            !.center = taps[row].right,
                            !.right = taps[row].farright]
     ELSE taps[row]]

\* The slide at j = n-1: left and center only.
SlideTapsLast(kind, taps) ==
  [row \in TapRowSet |->
     IF row \in RowsOf(kind)
     THEN [taps[row] EXCEPT !.left = taps[row].center,
                            !.center = taps[row].right]
     ELSE taps[row]]

\* The tests on ii with <= for <: the row after the last one which
\* overlaps coarse row i is still synthesized as a row of coarse row i.
KindInsideLate(ii, i, m, mm, map) ==
  IF i = 0 THEN (IF ii <= map[0] THEN "first" ELSE "first_last")
  ELSE IF i < m - 2 THEN (IF ii <= map[i] THEN "mid" ELSE "mid_last")
  ELSE IF ii < map[m - 2] + 1 THEN "penult"
  ELSE IF ii < mm THEN "last"
  ELSE "none"

\* The kind of the next output row ii of coarse row i, once the row before
\* it is written: the loop structure of lines 418, 876-885, 1383-1395, 1639.
KindInside(ii, i, m, mm, map) ==
  IF i = 0 THEN (IF ii < map[0] THEN "first" ELSE "first_last")
  ELSE IF i < m - 2 THEN (IF ii < map[i] THEN "mid" ELSE "mid_last")
  ELSE IF ii < map[m - 2] + 1 THEN "penult"
  ELSE IF ii < mm THEN "last"
  ELSE "none"

\* The coarse row index i after a row of this kind.
NextCoarseRow(kind, i, m) ==
  CASE kind = "first_last" -> 1
    [] kind = "mid_last"   -> i + 1
    [] OTHER               -> i

(***************************************************************************)
(* The runs of the program.  A run is fixed by the engine, the PPM header  *)
(* (n, m, maxval), the command line (argc, the flag argv[3], the numbers   *)
(* v1 and v2 that follow), the image, the number of samples the input      *)
(* stream holds after the header, and whether the output file can be       *)
(* opened.  For -s the number v1 is the scale in hundredths (argv "1.5"    *)
(* is 150); for -p it is the percentage.                                   *)
(***************************************************************************)
Run(engine, n, m, maxval, argc, flag, v1, v2, img, avail, can_open) ==
  [engine |-> engine, n |-> n, m |-> m, maxval |-> maxval, argc |-> argc,
   flag |-> flag, v1 |-> v1, v2 |-> v2, img |-> img, avail |-> avail,
   can_open |-> can_open]

SampleCount(n, m) == m * n * channels

Gradient == [kind |-> "gradient", v |-> 3]
Checker  == [kind |-> "checker", v |-> 255]
Const(v) == [kind |-> "const", v |-> v]

\* Largest input dimension of the runs that reach the synthesizer.
MaxDim == 16
\* The output dimension of those runs exceeds the input by at most this
\* (and by the whole input dimension for the doubling runs).
MaxExtra == 2

Dims == MinDim..MaxDim
FineDims(o) == (o..(o + MaxExtra)) \cup {2 * o}

\* Complete streams, dimensions given with -d: every admissible pair of
\* dimensions for a constant image, a selection for the other images.
AdmissibleRuns ==
  { Run(8, n, m, 255, 6, "-d", nn, mm, Const(100), SampleCount(n, m), TRUE) :
      <<n, m, nn, mm>> \in { q \in Dims \X Dims \X (MinDim..(2 * MaxDim)) \X (MinDim..(2 * MaxDim)) :
                               q[3] \in FineDims(q[1]) /\ q[4] \in FineDims(q[2]) } }
  \cup
  { Run(e, MinDim, MinDim, SampleMax(e), 6, "-d", nn, nn, img, SampleCount(MinDim, MinDim), TRUE) :
      <<e, nn, img>> \in {8, 16} \X FineDims(MinDim) \X {Const(0), Const(255), Gradient, Checker} }
  \cup
  { Run(8, MaxDim, MinDim, 255, 6, "-d", MaxDim, MinDim, img, SampleCount(MaxDim, MinDim), TRUE) :
      img \in {Gradient, Checker} }

\* Every form of the size arguments, with values on both sides of the
\* input dimensions.
ArgumentRuns ==
  { Run(8, MinDim, MaxDim, 255, argc, flag, v1, v2, Const(100), SampleCount(MinDim, MaxDim), TRUE) :
      <<argc, flag, v1, v2>> \in
        ({4} \X {""} \X {10, 15, 17} \X {0})
        \cup ({5} \X {"-s", "-p"} \X {50, 100, 150} \X {0})
        \cup ({5} \X {"-h", "-x"} \X {12, 16, 18} \X {0})
        \cup ({6} \X {"-d", "-x"} \X {14, 15, 17} \X {15, 16, 18})
        \cup ({3, 7} \X {"-d"} \X {17} \X {18}) }

\* Headers main rejects or accepts, and an output file that cannot be
\* opened.
HeaderRuns ==
  { Run(e, n, m, maxval, 6, "-d", 30, 30, Const(100), SampleCount(n, m), can_open) :
      <<e, n, m, maxval, can_open>> \in
        {8, 16} \X {MinDim - 1, MinDim} \X {MinDim - 1, MinDim} \X {255, 65535} \X {TRUE, FALSE} }

\* Input streams which end early: inside the last row, at the start of the
\* last row, inside and at the start of earlier rows.
TruncatedRuns ==
  { Run(e, MinDim, MinDim, SampleMax(e), 6, "-d", MinDim + 1, MinDim, Gradient, avail, TRUE) :
      <<e, avail>> \in {8, 16} \X
        { SampleCount(MinDim, MinDim) - 1,
          SampleCount(MinDim, MinDim) - 2 * channels,
          SampleCount(MinDim, MinDim - 1) + 1,
          SampleCount(MinDim, MinDim - 1),
          SampleCount(MinDim, MinDim - 2) - 1,
          SampleCount(MinDim, 1),
          channels + 1,
          0 } }

Runs == AdmissibleRuns \cup ArgumentRuns \cup HeaderRuns \cup TruncatedRuns

(***************************************************************************)
(* The state after construction.                                           *)
(***************************************************************************)
\* main's locals before anything is assigned.
MainStart ==
  [n |-> Unset, m |-> Unset, maxval |-> Unset, nn |-> Unset, mm |-> Unset,
   scale |-> Unset, ret |-> Unset, status |-> Unset, msg |-> "", outputfile |-> "unopened",
   header |-> <<>>, calls |-> 0]

ReadStart == [i |-> Unset, input_row |-> <<>>, pos |-> 0, rows_read |-> 0,
              column_pass_done |-> FALSE]

BandStart ==
  [last_overlapping_jj |-> <<>>, last_overlapping_ii |-> <<>>,
   left |-> <<>>, center |-> <<>>, right |-> <<>>, farright |-> <<>>,
   top |-> <<>>, middle |-> <<>>, bottom |-> <<>>, farbottom |-> <<>>]

NoTap == <<Unset, Unset>>
NoCoef == [c \in 0..(channels - 1) |-> Unset]

SynStart ==
  [kind |-> "none", ii |-> Unset, i |-> Unset, j |-> Unset, jj |-> Unset,
   last_ii |-> Unset, last_jj |-> Unset,
   w    |-> [row \in TapRowSet |-> Unset],
   taps |-> [row \in TapRowSet |->
               [left |-> NoTap, center |-> NoTap, right |-> NoTap, farright |-> NoTap]],
   ptr  |-> [row \in TapRowSet |-> NoTap],
   coef |-> [left |-> NoCoef, center |-> NoCoef, right |-> NoCoef]]

\* output_row, the fine columns its pixels were stored for, and the rows
\* handed to fwrite: their indices ii and the content of the latest one.
\* For every pixel stored in output_row, row_j is the coarse column j the
\* code was at and row_terms the band vectors whose entries entered the
\* sum; sums holds the sums before rounding.  acc is the sample-wise total
\* of sums over the block_rows rows written so far for coarse row block_i.
OutStart == [output_row |-> <<>>, row_jj |-> <<>>, written |-> <<>>, last |-> <<>>,
             row_j |-> <<>>, row_terms |-> <<>>, sums |-> <<>>,
             acc |-> <<>>, block_i |-> Unset, block_rows |-> 0]

LoiIdle == [LoiStart(2, 2) EXCEPT !.done = TRUE]
ClampIdle == [engine |-> 8, x |-> 0, unit |-> 1, stored |-> Unset, done |-> TRUE]
CtfIdle == [CtfStart(3, 3, last_overlapping_index(3, 3)) EXCEPT !.phase = "done"]

Init ==
  /\ sc \in Runs
  /\ pc = "main"
  /\ mainv = MainStart
  /\ rd = ReadStart
  /\ a = <<>>
  /\ band = BandStart
  /\ syn = SynStart
  /\ out = OutStart
  /\ heap = {}
  /\ loi = LoiIdle
  /\ rc = ClampIdle
  /\ ctf = CtfIdle

(***************************************************************************)
(* main (eanbqh8.c 1849-1970, eanbqh.c 2339-2461).                         *)
(***************************************************************************)
\* usage (eanbqh.h 450-472) prints the message and exits with status 1.
usage(message) ==
  /\ pc' = "exit"
  /\ mainv' = [mainv EXCEPT !.msg = message, !.status = 1]

\* Lines 1858-1893: the argument count, then the header of the input file.
CheckArguments ==
  /\ pc = "main"
  /\ IF sc.argc < 4 THEN usage("too few arguments")
     ELSE IF sc.argc > 6 THEN usage("too many arguments")
     ELSE /\ pc' = "check_dimensions"
          /\ mainv' = [mainv EXCEPT !.n = sc.n, !.m = sc.m, !.maxval = sc.maxval]
  /\ UNCHANGED <<sc, rd, a, band, syn, out, heap, loi, rc, ctf>>

\* Lines 1895-1899.
CheckDimensions ==
  /\ pc = "check_dimensions"
  /\ IF mainv.n < MinDim \/ mainv.m < MinDim
     THEN usage("input image must be at least 15x15")
     ELSE pc' = "check_maxval" /\ UNCHANGED mainv
  /\ UNCHANGED <<sc, rd, a, band, syn, out, heap, loi, rc, ctf>>

\* Lines 1901-1905 (8-bit), eanbqh.c 2391-2395 (16-bit).
CheckMaxval ==
  /\ pc = "check_maxval"
  /\ IF mainv.maxval # SampleMax(sc.engine)
     THEN usage(IF sc.engine = 8 THEN "input image must contain 8-bit samples"
                ELSE "input image must contain 16-bit samples")
     ELSE pc' = "parse_arguments" /\ UNCHANGED mainv
  /\ UNCHANGED <<sc, rd, a, band, syn, out, heap, loi, rc, ctf>>

\* (int) (p / (double) q + 0.5) for p >= 0, q > 0.
HalfUp(p, q) == (2 * p + q) \div (2 * q)

\* rint (p / q) for p >= 0, q > 0: to nearest, ties to even.
rint(p, q) ==
  LET fl == p \div q
      twice == 2 * (p % q)
  IN IF twice < q THEN fl
     ELSE IF twice > q THEN fl + 1
     ELSE IF fl % 2 = 0 THEN fl ELSE fl + 1

\* Lines 1907-1944.
ParseArguments ==
  /\ pc = "parse_arguments"
  /\ CASE sc.argc = 4 ->
            /\ mainv' = [mainv EXCEPT !.nn = sc.v1,
                                      !.mm = HalfUp(mainv.m * sc.v1, mainv.n)]
            /\ pc' = "open_output"
       [] sc.argc = 5 /\ sc.flag \in {"-s", "-p"} ->
            /\ mainv' = [mainv EXCEPT !.scale = sc.v1,
                                      !.nn = rint(sc.v1 * mainv.n, 100),
                                      !.mm = rint(sc.v1 * mainv.m, 100)]
            /\ pc' = "open_output"
       [] sc.argc = 5 /\ sc.flag = "-h" ->
            /\ mainv' = [mainv EXCEPT !.mm = sc.v1,
                                      !.nn = HalfUp(mainv.n * sc.v1, mainv.m)]
            /\ pc' = "open_output"
       [] sc.argc = 6 /\ sc.flag = "-d" ->
            /\ mainv' = [mainv EXCEPT !.nn = sc.v1, !.mm = sc.v2]
            /\ pc' = "open_output"
       [] OTHER -> usage("invalid arguments")
  /\ UNCHANGED <<sc, rd, a, band, syn, out, heap, loi, rc, ctf>>

\* Lines 1946-1954: the output file is opened and its header written.
OpenOutput ==
  /\ pc = "open_output"
  /\ IF ~sc.can_open THEN usage("cannot open output file")
     ELSE /\ pc' = "call_scale_up"
          /\ mainv' = [mainv EXCEPT !.outputfile = "open",
                                    !.header = <<mainv.nn, mainv.mm, mainv.maxval>>]
  /\ UNCHANGED <<sc, rd, a, band, syn, out, heap, loi, rc, ctf>>

(***************************************************************************)
(* scale_up (eanbqh8.c 44-1847, eanbqh.c 450-2337).                        *)
(***************************************************************************)
Buffers == {"a", "input_row", "output_row"}

\* main line 1957 and scale_up lines 53-150: the call, the locals and the
\* three heap buffers.
EnterScaleUp ==
  /\ pc = "call_scale_up"
  /\ mainv' = [mainv EXCEPT !.calls = mainv.calls + 1]
  /\ heap' = Buffers
  /\ rd' = [ReadStart EXCEPT !.i = 0,
              !.input_row = [p \in 1..(mainv.n * channels) |-> Unset]]
  /\ pc' = "read_row"
  /\ UNCHANGED <<sc, a, band, syn, out, loi, rc, ctf>>

\* Lines 165-278, one iteration of the reading loop: fread delivers the
\* samples the stream still holds, at most one row; the row is abandoned
\* only if fread delivers nothing.  Entries of input_row which fread does
\* not fill keep their content: the row before, or (first row) whatever
\* malloc returned.
ReadRow ==
  /\ pc = "read_row"
  /\ LET want == mainv.n * channels
         left_in_stream == sc.avail - rd.pos
         count == IF left_in_stream < want THEN left_in_stream ELSE want
     IN IF count = 0
        THEN /\ pc' = "returned"
             /\ mainv' = [mainv EXCEPT !.ret = 1]
             /\ UNCHANGED <<rd, a>>
        ELSE \E junk \in {ByteSwap(sc.engine, 0), ByteSwap(sc.engine, 255)} :
             LET row == [p \in 1..want |->
                          IF p <= count THEN StreamWord(sc.engine, sc.img, mainv.n, rd.pos + p - 1)
                          ELSE IF rd.input_row[p] = Unset THEN junk
                          ELSE rd.input_row[p]]
             IN /\ rd' = [rd EXCEPT !.input_row = row, !.pos = rd.pos + count,
                                    !.i = rd.i + 1, !.rows_read = rd.rows_read + 1]
                /\ a' = Append(a, RowPass([p \in 1..want |-> ByteSwap(sc.engine, row[p])],
                                          mainv.n,
                                          RescaleFactor(mainv.m, mainv.n, mainv.mm, mainv.nn)))
                /\ pc' = IF ReadLoopContinues(rd.i, mainv.m) THEN "read_row" ELSE "column_pass"
                /\ UNCHANGED mainv
  /\ UNCHANGED <<sc, band, syn, out, heap, loi, rc, ctf>>

\* Lines 280-393.
SolveColumns ==
  /\ pc = "column_pass"
  /\ a' = ColumnPass(a, mainv.m, mainv.n)
  /\ rd' = [rd EXCEPT !.column_pass_done = TRUE]
  /\ pc' = "overlap_maps"
  /\ UNCHANGED <<sc, mainv, band, syn, out, heap, loi, rc, ctf>>

\* Lines 408-409.
OverlapMaps ==
  /\ pc = "overlap_maps"
  /\ band' = [band EXCEPT
       !.last_overlapping_jj = last_overlapping_index(mainv.n, mainv.nn),
       !.last_overlapping_ii = last_overlapping_index(mainv.m, mainv.mm)]
  /\ pc' = "coefficients"
  /\ UNCHANGED <<sc, mainv, rd, a, syn, out, heap, loi, rc, ctf>>

\* Lines 411-418: the band vectors of both axes, then the first output row.
\* In the rows of the first coarse row the model's i is 0.
Coefficients ==
  /\ pc = "coefficients"
  /\ mainv.nn >= mainv.n /\ mainv.mm >= mainv.m
  /\ LET h == coarse_to_fine_coefficients(mainv.n, mainv.nn, band.last_overlapping_jj)
         v == coarse_to_fine_coefficients(mainv.m, mainv.mm, band.last_overlapping_ii)
     IN band' = [band EXCEPT !.left = h.left, !.center = h.center,
                             !.right = h.right, !.farright = h.farright,
                             !.top = v.left, !.middle = v.center,
                             !.bottom = v.right, !.farbottom = v.farright]
  /\ syn' = [syn EXCEPT !.ii = 0, !.i = 0,
                        !.last_ii = band.last_overlapping_ii[0],
                        !.kind = KindInside(0, 0, mainv.m, mainv.mm, band.last_overlapping_ii)]
  /\ pc' = "sweep_start"
  /\ UNCHANGED <<sc, mainv, rd, a, out, heap, loi, rc, ctf>>

\* Lines 411-414 when the output is smaller than the input along an axis:
\* the overlap map is then the identity on 0..coarse-2 and
\* coarse_to_fine_coefficients stores to left[], center[], right[] past
\* their fine-count entries.  The behaviour is undefined: the run may be
\* killed, or scale_up may return either value.
CoefficientsOutOfBounds ==
  /\ pc = "coefficients"
  /\ mainv.nn < mainv.n \/ mainv.mm < mainv.m
  /\ \/ pc' = "killed" /\ UNCHANGED mainv
     \/ \E r \in {0, 1} : pc' = "returned" /\ mainv' = [mainv EXCEPT !.ret = r]
  /\ UNCHANGED <<sc, rd, a, band, syn, out, heap, loi, rc, ctf>>

\* The three coef_* vectors of a sweep of these rows.
Coefs(grid, rows, w, taps) ==
  [left   |-> Coef(grid, rows, w, taps, "left"),
   center |-> Coef(grid, rows, w, taps, "center"),
   right  |-> Coef(grid, rows, w, taps, "right")]

\* The start of an output row, up to and including the last fine column
\* which overlaps coarse column 0 (first: 421-492, first_last: 639-712,
\* mid: 887-960, mid_last: 1126-1207, penult: 1398-1471, last: 1638-1703).
\* coef_left is not assigned here.
SweepStart ==
  /\ pc = "sweep_start"
  /\ \E rows \in {RowsOf(syn.kind)} :
     \E w \in {[row \in TapRowSet |->
                 IF row \in rows THEN RowWeight(band, row, syn.ii, syn.i) ELSE syn.w[row]]} :
     \E taps \in {LoadTaps(syn.kind, syn.i, mainv.m, syn.taps)} :
     \E coef \in {[syn.coef EXCEPT !.center = Coef(a, rows, w, taps, "center"),
                                    !.right  = Coef(a, rows, w, taps, "right")]} :
     \E last_jj \in {band.last_overlapping_jj[0]} :
     \E jj \in {IF last_jj > 0 THEN last_jj ELSE 0} :
        /\ syn' = [syn EXCEPT
             !.w = w, !.taps = taps, !.coef = coef,
             !.ptr = [row \in TapRowSet |->
                        IF row \in rows THEN <<GridRow(syn.kind, syn.i, mainv.m, row), 3>>
                        ELSE syn.ptr[row]],
             !.last_jj = last_jj, !.jj = jj + 1, !.j = 1]
        /\ out' = [out EXCEPT
             !.output_row =
                PlainCells(band, coef, {"center", "right"}, 0, last_jj, SampleMax(sc.engine))
                \o BoundaryCell(a, band, rows, w, taps, coef, {"center", "right"},
                                jj, 0, SampleMax(sc.engine)),
             !.row_jj = Columns(0, last_jj) \o <<jj>>,
             !.row_j = Repeat(0, 0, last_jj) \o <<0>>,
             !.row_terms = Repeat({"center", "right"}, 0, last_jj)
                           \o <<{"center", "right", "farright"}>>,
             !.sums = PlainSums(band, coef, {"center", "right"}, 0, last_jj)
                      \o BoundarySums(a, band, rows, w, taps, coef, {"center", "right"}, jj, 0)]
  /\ pc' = "sweep_slide"
  /\ UNCHANGED <<sc, mainv, rd, a, band, heap, loi, rc, ctf>>

\* One iteration of the loop over the coarse columns j = 1 .. n-3 (first:
\* 493-551, first_last: 713-780, mid: 961-1028, mid_last: 1208-1284,
\* penult: 1472-1539, last: 1704-1762).
SweepSlide ==
  /\ pc = "sweep_slide"
  /\ \E rows \in {RowsOf(syn.kind)} :
     \E taps \in {SlideTaps(syn.kind, syn.taps, syn.ptr)} :
     \E coef \in {Coefs(a, rows, syn.w, taps)} :
     \E last_jj \in {band.last_overlapping_jj[syn.j]} :
     \E jj \in {IF last_jj > syn.jj THEN last_jj ELSE syn.jj} :
        /\ syn' = [syn EXCEPT
             !.taps = taps, !.coef = coef,
             !.ptr = [row \in TapRowSet |->
                        IF row \in rows THEN <<syn.ptr[row][1], syn.ptr[row][2] + 1>>
                        ELSE syn.ptr[row]],
             !.last_jj = last_jj, !.jj = jj + 1, !.j = syn.j + 1]
        /\ out' = [out EXCEPT
             !.output_row = out.output_row
                \o PlainCells(band, coef, {"left", "center", "right"},
                              syn.jj, last_jj, SampleMax(sc.engine))
                \o BoundaryCell(a, band, rows, syn.w, taps, coef,
                                {"left", "center", "right"}, jj, syn.j, SampleMax(sc.engine)),
             !.row_jj = out.row_jj \o Columns(syn.jj, last_jj) \o <<jj>>,
             !.row_j = out.row_j \o Repeat(syn.j, syn.jj, last_jj) \o <<syn.j>>,
             !.row_terms = out.row_terms
                           \o Repeat({"left", "center", "right"}, syn.jj, last_jj)
                           \o <<{"left", "center", "right", "farright"}>>,
             !.sums = out.sums
                      \o PlainSums(band, coef, {"left", "center", "right"}, syn.jj, last_jj)
                      \o BoundarySums(a, band, rows, syn.w, taps, coef,
                                      {"left", "center", "right"}, jj, syn.j)]
  /\ pc' = IF syn.j + 1 < mainv.n - 2 THEN "sweep_slide" ELSE "sweep_penult"
  /\ UNCHANGED <<sc, mainv, rd, a, band, heap, loi, rc, ctf>>

\* Coarse column j = n-2 (first: 553-597, first_last: 782-828, mid:
\* 1030-1075, mid_last: 1286-1335, penult: 1541-1586, last: 1764-1802).
SweepPenult ==
  /\ pc = "sweep_penult"
  /\ \E rows \in {RowsOf(syn.kind)} :
     \E taps \in {SlideTapsPenult(syn.kind, syn.taps)} :
     \E coef \in {Coefs(a, rows, syn.w, taps)} :
     \E last_jj \in {band.last_overlapping_jj[syn.j] + 1} :
        /\ syn' = [syn EXCEPT !.taps = taps, !.coef = coef, !.last_jj = last_jj,
                              !.jj = IF last_jj > syn.jj THEN last_jj ELSE syn.jj]
        /\ out' = [out EXCEPT
             !.output_row = out.output_row
                \o PlainCells(band, coef, {"left", "center", "right"},
                              syn.jj, last_jj, SampleMax(sc.engine)),
             !.row_jj = out.row_jj \o Columns(syn.jj, last_jj),
             !.row_j = out.row_j \o Repeat(syn.j, syn.jj, last_jj),
             !.row_terms = out.row_terms
                           \o Repeat({"left", "center", "right"}, syn.jj, last_jj),
             !.sums = out.sums
                      \o PlainSums(band, coef, {"left", "center", "right"}, syn.jj, last_jj)]
  /\ pc' = "sweep_last"
  /\ UNCHANGED <<sc, mainv, rd, a, band, heap, loi, rc, ctf>>

\* Coarse column j = n-1, fwrite, ii++ and the choice of the code which
\* synthesizes the next row (first: 599-633, first_last: 830-885, mid:
\* 1077-1118, mid_last: 1337-1395, penult: 1588-1635, last: 1804-1840;
\* eanbqh.c 1063-1069 for the swap).
\* coef_right is not assigned here.  The 16-bit engine swaps the bytes of
\* output_row in place before fwrite.
SweepLast ==
  /\ pc = "sweep_last"
  /\ \E rows \in {RowsOf(syn.kind)} :
     \E taps \in {SlideTapsLast(syn.kind, syn.taps)} :
     \E coef \in {[syn.coef EXCEPT !.left   = Coef(a, rows, syn.w, taps, "left"),
                                    !.center = Coef(a, rows, syn.w, taps, "center")]} :
     \E output_row \in {out.output_row
                         \o PlainCells(band, coef, {"left", "center"},
                                       syn.jj, mainv.nn, SampleMax(sc.engine))} :
     \E sums \in {out.sums \o PlainSums(band, coef, {"left", "center"}, syn.jj, mainv.nn)} :
     \E block_i \in {CoarseRowOf(syn.kind, syn.i, mainv.m)} :
     \E i \in {NextCoarseRow(syn.kind, syn.i, mainv.m)} :
     \E next \in {KindInside(syn.ii + 1, i, mainv.m, mainv.mm, band.last_overlapping_ii)} :
        /\ syn' = [syn EXCEPT !.taps = taps, !.coef = coef,
                              !.jj = IF mainv.nn > syn.jj THEN mainv.nn ELSE syn.jj,
                              !.ii = syn.ii + 1, !.i = i, !.kind = next,
                              !.last_ii = CASE next \in {"mid", "mid_last"} ->
                                                 band.last_overlapping_ii[i]
                                            [] next \in {"penult", "last", "none"} ->
                                                 band.last_overlapping_ii[mainv.m - 2] + 1
                                            [] OTHER -> syn.last_ii]
        /\ out' = [out EXCEPT
             !.output_row = [p \in 1..Len(output_row) |-> ByteSwap(sc.engine, output_row[p])],
             !.row_jj = out.row_jj \o Columns(syn.jj, mainv.nn),
             !.row_j = out.row_j \o Repeat(syn.j + 1, syn.jj, mainv.nn),
             !.row_terms = out.row_terms \o Repeat({"left", "center"}, syn.jj, mainv.nn),
             !.sums = sums,
             !.acc = IF block_i = out.block_i
                     THEN [p \in 1..Len(sums) |-> out.acc[p] + sums[p]]
                     ELSE sums,
             !.block_i = block_i,
             !.block_rows = IF block_i = out.block_i THEN out.block_rows + 1 ELSE 1,
             !.written = Append(out.written, syn.ii),
             !.last = [p \in 1..Len(output_row) |-> ByteSwap(sc.engine, output_row[p])]]
        /\ pc' = IF next = "none" THEN "free" ELSE "sweep_start"
  /\ UNCHANGED <<sc, mainv, rd, a, band, heap, loi, rc, ctf>>

\* Lines 1842-1846.
FreeAndReturn ==
  /\ pc = "free"
  /\ heap' = {}
  /\ mainv' = [mainv EXCEPT !.ret = 0]
  /\ pc' = "returned"
  /\ UNCHANGED <<sc, rd, a, band, syn, out, loi, rc, ctf>>

\* main lines 1957-1969: the result of scale_up decides between the error
\* exit and the normal one; both close the files.
AfterScaleUp ==
  /\ pc = "returned"
  /\ IF mainv.ret # 0
     THEN /\ pc' = "exit"
          /\ mainv' = [mainv EXCEPT !.msg = "unable to read input file", !.status = 1,
                                    !.outputfile = "closed"]
     ELSE /\ pc' = "exit"
          /\ mainv' = [mainv EXCEPT !.status = 0, !.outputfile = "closed"]
  /\ UNCHANGED <<sc, rd, a, band, syn, out, heap, loi, rc, ctf>>

Next ==
  \/ CheckArguments
  \/ CheckDimensions
  \/ CheckMaxval
  \/ ParseArguments
  \/ OpenOutput
  \/ EnterScaleUp
  \/ ReadRow
  \/ SolveColumns
  \/ OverlapMaps
  \/ Coefficients
  \/ CoefficientsOutOfBounds
  \/ SweepStart
  \/ SweepSlide
  \/ SweepPenult
  \/ SweepLast
  \/ FreeAndReturn
  \/ AfterScaleUp

Spec == Init /\ [][Next]_vars

(***************************************************************************)
(* Stand-alone runs of last_overlapping_index, one iteration of its        *)
(* do-while per step, for every coarse count 2..MaxCoarseCount and every   *)
(* fine count coarse..coarse+MaxFineExtra.  main does not run.             *)
(***************************************************************************)
IdleRun == Run(8, MinDim, MinDim, 255, 6, "-d", MinDim, MinDim, Const(0), 0, TRUE)

InitMap ==
  /\ loi \in { LoiStart(o, oo) :
                 <<o, oo>> \in { q \in (2..MaxCoarseCount) \X (2..(MaxCoarseCount + MaxFineExtra)) :
                                   q[2] >= q[1] /\ q[2] <= q[1] + MaxFineExtra } }
  /\ pc = "idle"
  /\ sc = IdleRun
  /\ mainv = MainStart
  /\ rd = ReadStart
  /\ a = <<>>
  /\ band = BandStart
  /\ syn = SynStart
  /\ out = OutStart
  /\ heap = {}
  /\ rc = ClampIdle
  /\ ctf = CtfIdle

MapIteration ==
  /\ pc = "idle"
  /\ ~loi.done
  /\ loi' = LoiStep(loi)
  /\ UNCHANGED <<pc, sc, mainv, rd, a, band, syn, out, heap, rc, ctf>>

NextMap == MapIteration

SpecMap == InitMap /\ [][NextMap]_vars

\* The largest j with j * o < (k + 1) * oo, by search.
LargestOverlapping(k, o, oo) ==
  CHOOSE j \in 0..((k + 1) * oo) :
    /\ j * o < (k + 1) * oo
    /\ (j + 1) * o >= (k + 1) * oo

\* C1: when the fine count exceeds the coarse count (coarse >= 2), a
\* finished call of last_overlapping_index has stored to exactly the
\* entries 0..coarse-2, and entry k holds the largest j with
\* j*coarse < (k+1)*fine; no other entry is stored to on the way.
C1_MapIsLargestOverlapping ==
  (loi.oo > loi.o) =>
    /\ loi.written \subseteq 0..(loi.o - 2)
    /\ \A k \in loi.written : loi.map[k] = LargestOverlapping(k, loi.o, loi.oo)
    /\ loi.done => loi.written = 0..(loi.o - 2)

\* A finished call with a fine count which is not a multiple of the coarse
\* count, and more than one entry stored.
C1_Witness ==
  /\ loi.done
  /\ loi.oo > loi.o
  /\ loi.oo % loi.o # 0
  /\ loi.o >= 4
  /\ loi.written = 0..(loi.o - 2)

(***************************************************************************)
(* Stand-alone applications of ROUND_AND_CLAMP_TO_065535, for both         *)
(* engines, to sums x/ClampUnit around both ends of the sample range.      *)
(***************************************************************************)
\* The sums are multiples of 1/ClampUnit, and one half is among them.
ClampHalf == 2
ClampUnit == 2 * ClampHalf
\* They range from ClampMargin below to ClampMargin above each end.
ClampMargin == 3

ClampInputs(engine) ==
  ((0 - ClampMargin * ClampUnit)..(ClampMargin * ClampUnit))
  \cup { SampleMax(engine) * ClampUnit + d :
           d \in (0 - ClampMargin * ClampUnit)..(ClampMargin * ClampUnit) }

InitClamp ==
  /\ rc \in { [engine |-> e, x |-> x, unit |-> ClampUnit, stored |-> Unset, done |-> FALSE] :
                <<e, x>> \in { q \in {8, 16} \X ((0 - ClampMargin * ClampUnit)..((65535 + ClampMargin) * ClampUnit)) :
                                 q[2] \in ClampInputs(q[1]) } }
  /\ pc = "idle"
  /\ sc = IdleRun
  /\ mainv = MainStart
  /\ rd = ReadStart
  /\ a = <<>>
  /\ band = BandStart
  /\ syn = SynStart
  /\ out = OutStart
  /\ heap = {}
  /\ loi = LoiIdle
  /\ ctf = CtfIdle

\* *output_row_p++ = ROUND_AND_CLAMP_TO_065535 (x)
StoreSample ==
  /\ pc = "idle"
  /\ ~rc.done
  /\ rc' = [rc EXCEPT !.stored = ROUND_AND_CLAMP_TO_065535(rc.x, rc.unit, SampleMax(rc.engine)),
                      !.done = TRUE]
  /\ UNCHANGED <<pc, sc, mainv, rd, a, band, syn, out, heap, loi, ctf>>

NextClamp == StoreSample

SpecClamp == InitClamp /\ [][NextClamp]_vars

\* C4: the sample either engine stores lies in 0..maxval of the engine
\* (255 or 65535); inside that range it is the sum plus one half with the
\* fraction dropped, below it is 0 and above it is maxval.
C4_StoredSampleInRange ==
  rc.done =>
    /\ rc.stored \in 0..SampleMax(rc.engine)
    /\ (2 * rc.x + rc.unit < 0) => rc.stored = 0
    /\ (2 * rc.x + rc.unit >= 2 * rc.unit * SampleMax(rc.engine)) =>
          rc.stored = SampleMax(rc.engine)
    /\ (2 * rc.x + rc.unit >= 0 /\ 2 * rc.x + rc.unit < 2 * rc.unit * SampleMax(rc.engine)) =>
          /\ rc.stored * 2 * rc.unit <= 2 * rc.x + rc.unit
          /\ 2 * rc.x + rc.unit < (rc.stored + 1) * 2 * rc.unit

\* A sum below -1/2 stored by the 16-bit engine as 0.
C4_Witness ==
  /\ rc.done
  /\ rc.engine = 16
  /\ 2 * rc.x + rc.unit < 0 - 2 * rc.unit
  /\ rc.stored = 0

(***************************************************************************)
(* Stand-alone calls of coarse_to_fine_coefficients on the map which       *)
(* last_overlapping_index produced, one loop iteration (or one of the      *)
(* pieces of code between the loops) per step, for every coarse count      *)
(* 3..MaxCoarseCount and every fine count coarse..coarse+MaxFineExtra.     *)
(* The entries of the band vectors are the exact numerators over oo^3.     *)
(***************************************************************************)
InitCoef ==
  /\ ctf \in { CtfStart(o, oo, last_overlapping_index(o, oo)) :
                 <<o, oo>> \in { q \in (3..MaxCoarseCount) \X (3..(MaxCoarseCount + MaxFineExtra)) :
                                   q[2] >= q[1] /\ q[2] <= q[1] + MaxFineExtra } }
  /\ pc = "idle"
  /\ sc = IdleRun
  /\ mainv = MainStart
  /\ rd = ReadStart
  /\ a = <<>>
  /\ band = BandStart
  /\ syn = SynStart
  /\ out = OutStart
  /\ heap = {}
  /\ loi = LoiIdle
  /\ rc = ClampIdle

CoefficientStep ==
  /\ pc = "idle"
  /\ ctf.phase # "done"
  /\ ctf' = CtfStep(ctf)
  /\ UNCHANGED <<pc, sc, mainv, rd, a, band, syn, out, heap, loi, rc>>

NextCoef == CoefficientStep

SpecCoef == InitCoef /\ [][NextCoef]_vars

(***************************************************************************)
(* Properties of the runs of main and scale_up (Spec).                     *)
(***************************************************************************)
\* scale_up has been called with its stated preconditions on the sizes.
CalledForUpsizing ==
  mainv.calls > 0 /\ mainv.nn >= mainv.n /\ mainv.mm >= mainv.m

\* The stream holds every sample the header promises.
FullStream == sc.avail >= SampleCount(sc.n, sc.m)

\* C2: when scale_up is called with mm >= m, nn >= n (m, n >= 15) and all
\* reads succeed, the rows handed to fwrite are ii = 0, 1, 2, ... in that
\* order and mm of them once scale_up is through; inside a row the pixels
\* are stored for jj = 0, 1, 2, ..., one sample per channel each, never
\* more than nn of them, and a written row has nn*channels samples.
C2_RowsAndColumnsInOrder ==
  (CalledForUpsizing /\ FullStream) =>
    /\ out.written = [p \in 1..Len(out.written) |-> p - 1]
    /\ Len(out.written) <= mainv.mm
    /\ out.row_jj = [p \in 1..Len(out.row_jj) |-> p - 1]
    /\ Len(out.row_jj) <= mainv.nn
    /\ Len(out.output_row) = channels * Len(out.row_jj)
    /\ (Len(out.written) > 0 => Len(out.last) = mainv.nn * channels)
    /\ (pc \in {"free", "returned", "exit"} => Len(out.written) = mainv.mm)

\* A finished run whose ratios are not whole numbers.
C2_Witness ==
  /\ pc = "exit"
  /\ mainv.status = 0
  /\ mainv.nn > mainv.n /\ mainv.nn % mainv.n # 0
  /\ mainv.mm > mainv.m /\ mainv.mm % mainv.m # 0
  /\ Len(out.written) = mainv.mm
  /\ Len(out.last) = mainv.nn * channels

\* C3: on the last fine row which overlaps coarse row i, 1 <= i <= m-3,
\* once the sweep has slid to coarse column j (1 <= j <= n-3) the farbottom
\* taps left, center and right hold the grid values of row i+2 at columns
\* j-1, j and j+1.  (After the slide the model's syn.j is j+1.)
C3_FarbottomTapsHoldRowIPlusTwo ==
  (syn.kind = "mid_last" /\ pc \in {"sweep_slide", "sweep_penult"} /\ syn.j >= 2) =>
    \A c \in 0..(channels - 1) :
      /\ TapValue(a, syn.taps["farbottom"].left, c)   = a[syn.i + 3][syn.j - 2][c]
      /\ TapValue(a, syn.taps["farbottom"].center, c) = a[syn.i + 3][syn.j - 1][c]
      /\ TapValue(a, syn.taps["farbottom"].right, c)  = a[syn.i + 3][syn.j][c]

\* C5: when the stream holds fewer samples than the m rows need, a run in
\* which scale_up was called for upsizing ends with scale_up's result
\* non-zero and main's message 'unable to read input file'.
C5_ShortStreamIsReported ==
  (pc = "exit" /\ CalledForUpsizing /\ ~FullStream) =>
    /\ mainv.ret # 0
    /\ mainv.msg = "unable to read input file"

\* C6: output_row and the output rows change only when all m rows have
\* been read and the column pass is done, and the grid does not change in
\* such a step; the grid changes only while nothing has been stored or
\* written; the column pass starts only after m rows are read; and when a
\* read fails, scale_up returns with no row stored or written.
C6_GridCompleteBeforeOutput ==
  [][ /\ (out' # out =>
            /\ rd.rows_read = mainv.m
            /\ rd.column_pass_done
            /\ a' = a)
      /\ (a' # a => out.written = <<>> /\ out.output_row = <<>>)
      /\ (pc' = "column_pass" => rd'.rows_read = mainv.m /\ ~rd'.column_pass_done)
      /\ ((pc = "read_row" /\ pc' = "returned") =>
            /\ mainv'.ret = 1
            /\ out'.written = <<>> /\ out'.output_row = <<>>) ]_vars

\* A read failure after some rows were read, and a finished run.
C6_Witness ==
  /\ pc = "returned"
  /\ mainv.ret = 1
  /\ rd.rows_read > 1 /\ rd.rows_read < mainv.m
  /\ Len(a) = rd.rows_read
  /\ out.written = <<>>

\* C7: whenever main has called scale_up, nn >= n and mm >= m.
C7_CalledOnlyForUpsizing ==
  mainv.calls > 0 => (mainv.nn >= mainv.n /\ mainv.mm >= mainv.m)

\* C8: main has called scale_up only if n >= 15, m >= 15 and maxval is 255
\* (8-bit engine) or 65535 (16-bit engine); a run with any other header
\* stays before the opening of the output file and exits with status 1,
\* a message, the output file unopened and nothing written.
C8_HeaderCheckedBeforeOutput ==
  LET admitted == /\ sc.n >= 15 /\ sc.m >= 15
                  /\ (sc.engine = 8 => sc.maxval = 255)
                  /\ (sc.engine = 16 => sc.maxval = 65535)
  IN /\ (mainv.calls > 0 \/ mainv.outputfile # "unopened") => admitted
     /\ ~admitted =>
          /\ pc \in {"main", "check_dimensions", "check_maxval", "exit"}
          /\ mainv.header = <<>> /\ out.written = <<>>
          /\ pc = "exit" => (mainv.status = 1 /\ mainv.msg # "")

\* The 16-bit engine refusing an 8-bit image of admissible size.
C8_Witness ==
  /\ pc = "exit"
  /\ sc.engine = 16 /\ sc.maxval = 255 /\ sc.n >= 15 /\ sc.m >= 15
  /\ mainv.msg = "input image must contain 16-bit samples"
  /\ mainv.outputfile = "unopened"

\* C9: when nn = n and mm = m, every row written is the input row of the
\* same index, sample for sample (as the words fread delivered them).
C9_IdentityReproducesInput ==
  (CalledForUpsizing /\ FullStream /\ mainv.nn = mainv.n /\ mainv.mm = mainv.m
     /\ Len(out.written) > 0) =>
    out.last = [p \in 1..(mainv.n * channels) |->
                  StreamWord(sc.engine, sc.img, mainv.n,
                             out.written[Len(out.written)] * mainv.n * channels + p - 1)]

\* The whole of a non-constant image reproduced by the 16-bit engine.
C9_Witness ==
  /\ pc = "exit"
  /\ mainv.status = 0
  /\ sc.engine = 16
  /\ sc.img.kind = "gradient"
  /\ mainv.nn = mainv.n /\ mainv.mm = mainv.m
  /\ Len(out.written) = mainv.m

\* C10: when the image is the constant V and scale_up is called for
\* upsizing on a full stream, every row written holds V in every sample.
C10_ConstantImageStaysConstant ==
  (CalledForUpsizing /\ FullStream /\ sc.img.kind = "const" /\ Len(out.written) > 0) =>
    out.last = [p \in 1..(mainv.nn * channels) |-> ByteSwap(sc.engine, sc.img.v)]

\* The 15x15 image of 100s at maxval 255 upsampled to 30x30.
C10_Witness ==
  /\ pc = "exit"
  /\ mainv.status = 0
  /\ sc.img = Const(100) /\ sc.maxval = 255
  /\ mainv.n = 15 /\ mainv.m = 15 /\ mainv.nn = 30 /\ mainv.mm = 30
  /\ Len(out.written) = 30
  /\ \A p \in 1..Len(out.last) : out.last[p] = 100

\* An entry which was not assigned weighs nothing.
Assigned(v) == IF v = Unset THEN 0 ELSE v

\* x and y differ by tol at most.
Near(x, y, tol) == x - y <= tol /\ y - x <= tol

\* The sum of the assigned entries lo..hi of a band vector.
RECURSIVE SumEntries(_, _, _)
SumEntries(vec, lo, hi) ==
  IF lo > hi THEN 0 ELSE Assigned(vec[lo]) + SumEntries(vec, lo + 1, hi)

\* Row k of the system of o unknowns the solver inverts: the weights of
\* unknowns k-1, k and k+1.
SystemRow(k, o) ==
  IF k = 0 THEN <<0, 5, 1>> ELSE IF k = o - 1 THEN <<1, 5, 0>> ELSE <<1, 4, 1>>

\* For oo = q*o: the band vectors l, c, r summed over the q fine cells of
\* coarse cell k give row k of the system (each stored entry is rounded to
\* the nearest multiple of 1/One, hence the q), and f[k] is 0.
BandSumsAreSystemRows(l, c, r, f, o, oo) ==
  LET q == oo \div o
  IN \A k \in 0..(o - 1) :
       /\ Near(SumEntries(l, q * k, q * k + q - 1), SystemRow(k, o)[1] * One, q)
       /\ Near(SumEntries(c, q * k, q * k + q - 1), SystemRow(k, o)[2] * One, q)
       /\ Near(SumEntries(r, q * k, q * k + q - 1), SystemRow(k, o)[3] * One, q)
       /\ (k <= o - 2 => f[k] = 0)

\* The unknowns v of the system whose right-hand side is w, row by row, to
\* tol.
SolvesSystem(v, w, tol) ==
  \A k \in 1..Len(w) :
    Near(SystemRow(k - 1, Len(w))[1] * (IF k > 1 THEN v[k - 1] ELSE 0)
         + SystemRow(k - 1, Len(w))[2] * v[k]
         + SystemRow(k - 1, Len(w))[3] * (IF k < Len(w) THEN v[k + 1] ELSE 0),
         w[k], tol)

\* The total over the fine columns of coarse column k of acc, channel c.
RECURSIVE BlockTotal(_, _, _, _)
BlockTotal(acc, jj, hi, c) ==
  IF jj > hi THEN 0 ELSE acc[jj * channels + c + 1] + BlockTotal(acc, jj + 1, hi, c)

\* What the fixed-point arithmetic of the model may lose in a total of
\* sums: 1/256 of a sample step.
FluxTolerance == One \div 256

\* C11: when nn = q*n the horizontal band vectors, summed over the q fine
\* cells of coarse column k, give the row of the system the solver
\* inverts (1,4,1 inside, 5,1 for the first cell, 1,5 for the last) and
\* farright[k] = 0; likewise for the vertical band vectors when mm = q*m;
\* the rows of the grid before the column pass solve that system for the
\* rescaled input row; and when both hold, the sums before rounding of the
\* output samples which cover an input pixel total their number times the
\* input sample.
C11_WholeRatioConservesFlux ==
  (CalledForUpsizing /\ FullStream) =>
    /\ (band.left # <<>> /\ mainv.nn % mainv.n = 0) =>
         BandSumsAreSystemRows(band.left, band.center, band.right, band.farright,
                               mainv.n, mainv.nn)
    /\ (band.top # <<>> /\ mainv.mm % mainv.m = 0) =>
         BandSumsAreSystemRows(band.top, band.middle, band.bottom, band.farbottom,
                               mainv.m, mainv.mm)
    /\ (pc = "read_row" /\ Len(a) > 0) =>
         \A c \in 0..(channels - 1) :
           SolvesSystem([k \in 1..mainv.n |-> a[Len(a)][k - 1][c]],
                        [k \in 1..mainv.n |->
                           FMul(FromInt(ByteSwap(sc.engine, rd.input_row[(k - 1) * channels + c + 1])),
                                RescaleFactor(mainv.m, mainv.n, mainv.mm, mainv.nn))],
                        FluxTolerance)
    /\ (mainv.nn % mainv.n = 0 /\ mainv.mm % mainv.m = 0
        /\ out.block_rows = mainv.mm \div mainv.m) =>
         \A k \in 0..(mainv.n - 1) : \A c \in 0..(channels - 1) :
           Near(BlockTotal(out.acc, (mainv.nn \div mainv.n) * k,
                           (mainv.nn \div mainv.n) * k + (mainv.nn \div mainv.n) - 1, c),
                (mainv.nn \div mainv.n) * (mainv.mm \div mainv.m)
                  * FromInt(StreamSample(sc.img, mainv.n,
                                         (out.block_i * mainv.n + k) * channels + c)),
                FluxTolerance)

\* The 15x15 gradient image doubled along both axes by the 8-bit engine,
\* both rows of the last coarse row written.
C11_Witness ==
  /\ pc = "exit"
  /\ mainv.status = 0
  /\ sc.img.kind = "gradient" /\ sc.engine = 8
  /\ mainv.n = 15 /\ mainv.m = 15 /\ mainv.nn = 30 /\ mainv.mm = 30
  /\ out.block_i = 14 /\ out.block_rows = 2
  /\ band.farright[0] = 0 /\ band.farbottom[13] = 0

(***************************************************************************)
(* Properties of the band vectors (SpecCoef), of the overlap map (SpecMap) *)
(* and of the rounding (SpecClamp).                                        *)
(***************************************************************************)
\* The fine cells which belong to coarse cell k: those after the last fine
\* cell overlapping coarse cell k-1, up to the last one overlapping k.
FirstFineCell(st, k) == IF k = 0 THEN 0 ELSE st.map[k - 1] + 1
LastFineCell(st, k) == IF k = st.o - 1 THEN st.oo - 1 ELSE st.map[k]

\* The numerators of the band coefficients the synthesizer applies at fine
\* cell kk of coarse cell k: left, center, right of kk, and farright[k] at
\* the last fine cell of k when k <= o-3.
FineCellTotal(st, k, kk) ==
  Assigned(st.left[kk]) + st.center[kk] + Assigned(st.right[kk])
  + (IF kk = LastFineCell(st, k) /\ k <= st.o - 3 THEN st.farright[k] ELSE 0)

RECURSIVE CoarseCellTotal(_, _, _)
CoarseCellTotal(st, k, kk) ==
  IF kk > LastFineCell(st, k) THEN 0
  ELSE FineCellTotal(st, k, kk) + CoarseCellTotal(st, k, kk + 1)

\* C12 as stated: once coarse_to_fine_coefficients is through, the band
\* coefficients of the fine cells which belong to a coarse cell total 1
\* (numerators: oo^3), for every coarse cell.
C12_CoarseCellTotalsOne ==
  (ctf.phase = "done") =>
    \A k \in 0..(ctf.o - 1) :
      CoarseCellTotal(ctf, k, FirstFineCell(ctf, k)) = ctf.oo * ctf.oo * ctf.oo

\* C12 amended: the band coefficients of every fine cell total
\* 6*coarse/fine, so that those of the c fine cells which belong to a
\* coarse cell total 6*c*coarse/fine: 6 when fine is a multiple of coarse.
C12_CoarseCellTotalsSixTimesWidth ==
  (ctf.phase = "done") =>
    \A k \in 0..(ctf.o - 1) :
      /\ \A kk \in FirstFineCell(ctf, k)..LastFineCell(ctf, k) :
           FineCellTotal(ctf, k, kk) = 6 * ctf.o * ctf.oo * ctf.oo
      /\ CoarseCellTotal(ctf, k, FirstFineCell(ctf, k))
           = 6 * (LastFineCell(ctf, k) - FirstFineCell(ctf, k) + 1) * ctf.o * ctf.oo * ctf.oo
      /\ (ctf.oo % ctf.o = 0) =>
           CoarseCellTotal(ctf, k, FirstFineCell(ctf, k)) = 6 * ctf.oo * ctf.oo * ctf.oo

\* A finished call whose fine cells straddle coarse cell boundaries, with
\* coarse cells of two and of three fine cells.
C12_Witness ==
  /\ ctf.phase = "done"
  /\ ctf.o = 4 /\ ctf.oo = 9
  /\ CoarseCellTotal(ctf, 1, FirstFineCell(ctf, 1)) = 6 * 2 * ctf.o * ctf.oo * ctf.oo
  /\ CoarseCellTotal(ctf, 0, FirstFineCell(ctf, 0)) = 6 * 3 * ctf.o * ctf.oo * ctf.oo

\* C13: for fine >= coarse >= 2 the entries last_overlapping_index has
\* stored are non-decreasing in k, and when the call is through the last
\* entry map[coarse-2] is less than fine.
C13_MapMonotoneAndBelowFine ==
  /\ \A k1 \in loi.written : \A k2 \in loi.written :
       k1 <= k2 => loi.map[k1] <= loi.map[k2]
  /\ (loi.done /\ (loi.o - 2) \in loi.written) => loi.map[loi.o - 2] < loi.oo

\* A finished call with fine = coarse + 1: the last entry is coarse - 1.
C13_Witness ==
  /\ loi.done
  /\ loi.o >= 5 /\ loi.oo = loi.o + 1
  /\ loi.map[loi.o - 2] = loi.o - 1
  /\ loi.map[0] = 1

\* C14: when fine = coarse every entry stored is its own index, and a
\* finished call has stored the entries 0..coarse-2.
C14_EqualCountsGiveIdentity ==
  (loi.oo = loi.o) =>
    /\ \A k \in loi.written : loi.map[k] = k
    /\ loi.done => loi.written = 0..(loi.o - 2)

\* A finished call with fine = coarse >= 4.
C14_Witness ==
  /\ loi.done
  /\ loi.oo = loi.o /\ loi.o >= 4
  /\ loi.map[loi.o - 2] = loi.o - 2

\* clamp(v, 0, maxv)
ClampTo(v, maxv) == IF v < 0 THEN 0 ELSE IF v > maxv THEN maxv ELSE v

\* C15: the sample stored for the sum x is clamp(floor(x + 1/2), 0,
\* maxval), for negative x as for the others.
C15_StoredIsClampedFloor ==
  rc.done =>
    rc.stored = ClampTo((2 * rc.x + rc.unit) \div (2 * rc.unit), SampleMax(rc.engine))

\* A sum x with -1 < x + 1/2 < 0: truncation gives 0 where the floor is -1.
C15_Witness ==
  /\ rc.done
  /\ 2 * rc.x + rc.unit < 0
  /\ 2 * rc.x + rc.unit > 0 - 2 * rc.unit
  /\ (2 * rc.x + rc.unit) \div (2 * rc.unit) = 0 - 1
  /\ rc.stored = 0

\* An output row is being synthesized: its vertical weights are loaded.
InSweep == pc \in {"sweep_slide", "sweep_penult", "sweep_last"}

\* C16: in every output row the pixels whose sum has a farright-weighted
\* term are those of the fine columns jj = last_overlapping_jj[j], j in
\* 0..n-3, stored while the code is at coarse column j; a complete row has
\* one such pixel for each j in 0..n-3 and no other.  The farbottom taps
\* enter the sums of output row ii exactly when ii = last_overlapping_ii[i]
\* for the coarse row i of ii, i in 0..m-3.
C16_FarTermsOnlyAtLastOverlappingCells ==
  (CalledForUpsizing /\ FullStream) =>
    /\ \A p \in 1..Len(out.row_terms) :
         ("farright" \in out.row_terms[p]) <=>
           /\ out.row_j[p] <= mainv.n - 3
           /\ out.row_jj[p] = band.last_overlapping_jj[out.row_j[p]]
    /\ \A p \in 1..Len(out.row_terms) :
         ("farright" \in out.row_terms[p]) <=>
           (\E j \in 0..(mainv.n - 3) : out.row_jj[p] = band.last_overlapping_jj[j])
    /\ (Len(out.row_terms) = mainv.nn) =>
         \A j \in 0..(mainv.n - 3) :
           Cardinality({ p \in 1..mainv.nn :
                          "farright" \in out.row_terms[p] /\ out.row_j[p] = j }) = 1
    /\ InSweep =>
         (("farbottom" \in RowsOf(syn.kind)) <=>
            /\ CoarseRowOf(syn.kind, syn.i, mainv.m) <= mainv.m - 3
            /\ syn.ii = band.last_overlapping_ii[CoarseRowOf(syn.kind, syn.i, mainv.m)])
    /\ InSweep =>
         (("farbottom" \in RowsOf(syn.kind)) <=>
            (\E i \in 0..(mainv.m - 3) : syn.ii = band.last_overlapping_ii[i]))

\* An image doubled along both axes, the first of the two output rows of
\* coarse row 1 stored up to coarse column n-2: the row has no farbottom
\* term, its pixel of fine column last_overlapping_jj[1] has a farright
\* term and the pixel before has none.
C16_Witness ==
  /\ pc = "sweep_last"
  /\ Len(out.row_terms) = band.last_overlapping_jj[mainv.n - 2] + 1
  /\ mainv.nn = 2 * mainv.n /\ mainv.mm = 2 * mainv.m
  /\ syn.kind = "mid" /\ syn.i = 1
  /\ "farright" \in out.row_terms[band.last_overlapping_jj[1] + 1]
  /\ "farright" \notin out.row_terms[band.last_overlapping_jj[1]]

\* C17: the body of if (oo%o) has been executed once the code is past it
\* exactly when the fine cell map[coarse-2] reaches into the last coarse
\* cell, (map[coarse-2]+1)*coarse > (coarse-1)*fine, and never before; when
\* fine is a multiple of coarse that fine cell ends on the boundary.
C17_CorrectionIffLastCellOverlaps ==
  /\ (ctf.phase \in {"last", "done"}) =>
       (ctf.fixed <=> (ctf.map[ctf.o - 2] + 1) * ctf.o > (ctf.o - 1) * ctf.oo)
  /\ (ctf.phase \notin {"last", "done"}) => ~ctf.fixed
  /\ (ctf.oo % ctf.o = 0) => (ctf.map[ctf.o - 2] + 1) * ctf.o = (ctf.o - 1) * ctf.oo
  /\ (ctf.oo % ctf.o = 0) => ~ctf.fixed

\* A finished call in which the correction was applied.
C17_Witness ==
  /\ ctf.phase = "done"
  /\ ctf.fixed
  /\ ctf.oo % ctf.o # 0
  /\ (ctf.map[ctf.o - 2] + 1) * ctf.o > (ctf.o - 1) * ctf.oo

\* C18 as stated: a pixel stored at the second or the second to last
\* coarse column combines fewer band terms than every pixel of the row
\* stored at the first or the last coarse column, and an output row of
\* the second or the second to last coarse row sums fewer tap rows than
\* the rows of the first and of the last coarse row do.
C18_NearEdgeStatesCombineFewerTaps ==
  (CalledForUpsizing /\ FullStream) =>
    /\ \A p \in 1..Len(out.row_terms) : \A q \in 1..Len(out.row_terms) :
         (out.row_j[p] \in {1, mainv.n - 2} /\ out.row_j[q] \in {0, mainv.n - 1}) =>
           Cardinality(out.row_terms[p]) < Cardinality(out.row_terms[q])
    /\ (InSweep /\ CoarseRowOf(syn.kind, syn.i, mainv.m) \in {1, mainv.m - 2}) =>
         /\ Cardinality(RowsOf(syn.kind)) < Cardinality(RowsOf("first"))
         /\ Cardinality(RowsOf(syn.kind)) < Cardinality(RowsOf("last"))

\* C18 amended: the edge states combine fewer taps than the states two
\* cells from the edge.  At the first coarse column the sums have no left
\* term, at the second to last no farright term, at the last neither a
\* farright nor a right term; at every other column, the second included,
\* they have left, center and right (and farright at the last overlapping
\* fine cell).  The tap rows top, middle, bottom and farbottom are summed
\* in the same way over the coarse rows.
C18_EdgeStatesCombineFewerTaps ==
  (CalledForUpsizing /\ FullStream) =>
    /\ \A p \in 1..Len(out.row_terms) :
         LET j == out.row_j[p]
             t == out.row_terms[p]
         IN /\ (j = 0) => t \ {"farright"} = {"center", "right"}
            /\ (1 <= j /\ j <= mainv.n - 3) => t \ {"farright"} = {"left", "center", "right"}
            /\ (j = mainv.n - 2) => t = {"left", "center", "right"}
            /\ (j = mainv.n - 1) => t = {"left", "center"}
    /\ InSweep =>
         LET i == CoarseRowOf(syn.kind, syn.i, mainv.m)
             t == RowsOf(syn.kind)
         IN /\ (i = 0) => t \ {"farbottom"} = {"middle", "bottom"}
            /\ (1 <= i /\ i <= mainv.m - 3) => t \ {"farbottom"} = {"top", "middle", "bottom"}
            /\ (i = mainv.m - 2) => t = {"top", "middle", "bottom"}
            /\ (i = mainv.m - 1) => t = {"top", "middle"}

\* A complete row of the second to last coarse row: three tap rows, and
\* three band terms at the second to last coarse column against two at
\* the last.
C18_Witness ==
  /\ pc = "sweep_start"
  /\ Len(out.row_terms) = mainv.nn
  /\ mainv.nn > mainv.n
  /\ out.block_i = mainv.m - 2
  /\ out.row_j[mainv.nn] = mainv.n - 1
  /\ Cardinality(out.row_terms[mainv.nn]) = 2
  /\ out.row_j[band.last_overlapping_jj[mainv.n - 2] + 1] = mainv.n - 2
  /\ Cardinality(out.row_terms[band.last_overlapping_jj[mainv.n - 2] + 1]) = 3

LeftUnassigned(o, oo) == IF oo % o = 0 THEN oo \div o ELSE (oo \div o) + 1

ScheduleC(k) == IF k <= 5 THEN <<C0, C1, C2, C3, C4, C5>>[k + 1] ELSE CINFTY

\* Forward substitution over the right-hand sides rhs[1..len] (position k
\* at index k + 1, already rescaled), f holding the positions done:
\* f[0] = rhs[0], f[k] = rhs[k] - C(k-1)*f[k-1].
RECURSIVE ForwardSweep(_, _)
ForwardSweep(rhs, f) ==
  IF Len(f) = Len(rhs) THEN f
  ELSE ForwardSweep(rhs,
         Append(f, IF Len(f) = 0 THEN rhs[1]
                   ELSE rhs[Len(f) + 1] - FMul(ScheduleC(Len(f) - 1), f[Len(f)])))

\* Back substitution over the forward result f, from the last position
\* down, b holding the positions done: b[len-1] = CLAST*f[len-1],
\* b[k] = (f[k] - b[k+1])*C(k).
RECURSIVE BackSweep(_, _)
BackSweep(f, b) ==
  IF Len(b) = Len(f) THEN b
  ELSE BackSweep(f,
         <<IF Len(b) = 0 THEN FMul(CLAST, f[Len(f)])
           ELSE FMul(f[Len(f) - Len(b)] - b[1], ScheduleC(Len(f) - Len(b) - 1))>> \o b)

\* C21: a step of the row pass leaves in the new grid row, for every
\* channel, the n values which forward substitution a[k] = s*v[k] -
\* C(k-1)*a[k-1] (a[0] = s*v[0]) and back substitution a[n-1] =
\* CLAST*a[n-1], a[k] = (a[k] - a[k+1])*C(k) give for the n samples v of
\* the row read, s = (mm*nn)/(m*n), C(k) = C0..C5 for k <= 5 and CINFTY
\* from 6 on: one value per column index.  The column pass replaces every
\* column of the grid, channel by channel, by what the same two sweeps
\* give over its m values, and leaves m rows of n pixels.
C21_PassesFollowTheSchedule ==
  [][ /\ (pc = "read_row" /\ pc' # "returned") =>
           /\ Len(a') = Len(a) + 1
           /\ DOMAIN a'[Len(a')] = 0..(mainv.n - 1)
           /\ \E s \in { FromRatio(mainv.mm * mainv.nn, mainv.m * mainv.n) } :
              \A c \in 0..(channels - 1) :
                \E f \in { ForwardSweep([k \in 1..mainv.n |->
                                FMul(FromInt(ByteSwap(sc.engine,
                                       rd'.input_row[(k - 1) * channels + c + 1])), s)], <<>>) } :
                \E solved \in { BackSweep(f, <<>>) } :
                  \A k \in 0..(mainv.n - 1) : a'[Len(a')][k][c] = solved[k + 1]
      /\ (pc = "column_pass") =>
           /\ Len(a') = mainv.m
           /\ \A col \in 0..(mainv.n - 1) : \A c \in 0..(channels - 1) :
                \E f \in { ForwardSweep([r \in 1..mainv.m |-> a[r][col][c]], <<>>) } :
                \E solved \in { BackSweep(f, <<>>) } :
                  \A r \in 0..(mainv.m - 1) : a'[r + 1][col][c] = solved[r + 1] ]_vars

\* Both passes done over a 15 by 16 grid of samples which vary along the
\* rows.
C21_Witness ==
  /\ pc = "overlap_maps"
  /\ rd.column_pass_done
  /\ sc.img.kind = "gradient"
  /\ mainv.n = 16 /\ mainv.m = 15
  /\ Len(a) = 15
  /\ a[1][0][0] # a[1][15][0]

(***************************************************************************)
(* Properties of the synthesizer's window (Spec).                          *)
(***************************************************************************)
\* C22: in the sweep of any output row, after the slide at coarse column
\* j, 1 <= j <= n-3 (the model's syn.j is then j+1), the taps left,
\* center, right, farright of each of the rows top, middle and bottom in
\* use hold the grid values of that row at columns j-1, j, j+1, j+2; the
\* slide moves three taps of each such row and takes one new value per
\* channel through the row's pointer, which advances by one pixel; and
\* once the slides are through every row in use has been read from column
\* 0 to column n-1, n pixels, each once.
C22_WindowHoldsFourNeighbours ==
  [][ /\ (pc' \in {"sweep_slide", "sweep_penult"} /\ syn'.j >= 2) =>
           \A row \in RowsOf(syn'.kind) \ {"farbottom"} :
             \E r \in {GridRow(syn'.kind, syn'.i, mainv.m, row)} :
               /\ syn'.taps[row].left     = <<r, syn'.j - 2>>
               /\ syn'.taps[row].center   = <<r, syn'.j - 1>>
               /\ syn'.taps[row].right    = <<r, syn'.j>>
               /\ syn'.taps[row].farright = <<r, syn'.j + 1>>
      /\ (pc = "sweep_slide") =>
           \A row \in RowsOf(syn.kind) :
             /\ syn'.ptr[row] = <<syn.ptr[row][1], syn.ptr[row][2] + 1>>
             /\ syn'.taps[row].farright = syn.ptr[row]
             /\ (row # "farbottom") =>
                  /\ syn'.taps[row].left   = syn.taps[row].center
                  /\ syn'.taps[row].center = syn.taps[row].right
                  /\ syn'.taps[row].right  = syn.taps[row].farright
      /\ (pc = "sweep_start") =>
           \A row \in RowsOf(syn.kind) :
             syn'.ptr[row] = <<GridRow(syn.kind, syn.i, mainv.m, row), 3>>
      /\ (pc \in {"sweep_penult", "sweep_last"}) =>
           \A row \in RowsOf(syn.kind) :
             /\ syn.ptr[row] = <<GridRow(syn.kind, syn.i, mainv.m, row), mainv.n>>
             /\ syn'.ptr[row] = syn.ptr[row] ]_vars

\* The sweep of a row of the second to last coarse row past its last
\* slide: the top taps hold columns n-4..n-1 of grid row m-3.
C22_Witness ==
  /\ pc = "sweep_penult"
  /\ syn.kind = "penult"
  /\ syn.j = mainv.n - 2
  /\ syn.taps["top"].left = <<mainv.m - 3, mainv.n - 4>>
  /\ syn.taps["top"].farright = <<mainv.m - 3, mainv.n - 1>>
  /\ syn.ptr["top"] = <<mainv.m - 3, mainv.n>>

(***************************************************************************)
(* Properties of the overlap map's arithmetic (SpecMap).                   *)
(***************************************************************************)
\* C23: in last_overlapping_index with fine > coarse the running products
\* are (k+1)*fine and (kk+1)*coarse, both stay within [0, coarse*fine],
\* and the first is exactly coarse*fine when the call is through; the
\* largest value the call forms is therefore coarse*fine, and a 32-bit
\* signed int overflows exactly when coarse*fine > 2^31 - 1.
C23_ProductsWithinCoarseTimesFine ==
  (loi.oo > loi.o) =>
    /\ loi.k_plus_one_times_oo = (loi.k + 1) * loi.oo
    /\ loi.kk_plus_one_times_o = (loi.kk + 1) * loi.o
    /\ 0 <= loi.k_plus_one_times_oo /\ loi.k_plus_one_times_oo <= loi.o * loi.oo
    /\ 0 <= loi.kk_plus_one_times_o /\ loi.kk_plus_one_times_o <= loi.o * loi.oo
    /\ loi.done => loi.k_plus_one_times_oo = loi.o * loi.oo

\* A finished call with ratio not whole: the first product has reached
\* coarse*fine, the second has passed (coarse-1)*fine and stayed below.
C23_Witness ==
  /\ loi.done
  /\ loi.o = MaxCoarseCount
  /\ loi.oo = loi.o + 1
  /\ loi.k_plus_one_times_oo = loi.o * loi.oo
  /\ loi.kk_plus_one_times_o > (loi.o - 1) * loi.oo
  /\ loi.kk_plus_one_times_o < loi.o * loi.oo

\* C24 as stated: for all fine >= coarse >= 2 the finished call has
\* incremented the fine index exactly map[coarse-2] times, and that is
\* less than fine.
C24_IncrementsEqualLastEntry ==
  loi.done =>
    /\ loi.increments = loi.map[loi.o - 2]
    /\ loi.map[loi.o - 2] < loi.oo

\* C24 amended: for all fine >= coarse >= 2 every iteration of the outer
\* loop adds one to k, k never exceeds coarse-1 and the call is through
\* exactly when k = coarse-1 (so it ends after coarse-1 iterations); the
\* entry stored last is less than fine; and when fine > coarse every
\* iteration increments the fine index at least once and the number of
\* increments so far is the entry just stored.
C24_TerminatesWithMapManyIncrements ==
  [][ /\ loi'.k = loi.k + 1
      /\ loi'.k <= loi.o - 1
      /\ loi'.done <=> (loi'.k = loi.o - 1)
      /\ loi'.map[loi.k] < loi.oo
      /\ (loi.oo > loi.o) =>
           /\ loi'.increments > loi.increments
           /\ loi'.increments = loi'.map[loi.k]
           /\ loi'.kk = loi'.map[loi.k]
      /\ (loi.oo = loi.o) => loi'.increments = 0 ]_vars

\* A finished call with fine > coarse whose fine index was incremented
\* map[coarse-2] times, more than once per coarse cell.
C24_Witness ==
  /\ loi.done
  /\ loi.oo > 2 * loi.o
  /\ loi.o >= 3
  /\ loi.increments = loi.map[loi.o - 2]
  /\ loi.increments > 2 * (loi.o - 1)

(***************************************************************************)
(* Properties of the elimination constants (Spec).  Numbers too wide for   *)
(* one integer are sequences of base 1000 limbs, least significant first.  *)
(***************************************************************************)
RECURSIVE Limbs(_)
Limbs(x) == IF x < 1000 THEN <<x>> ELSE <<x % 1000>> \o Limbs(x \div 1000)

LimbAt(A, i) == IF i \in DOMAIN A THEN A[i] ELSE 0

RECURSIVE Carry(_, _, _)
Carry(raw, i, c) ==
  IF i > Len(raw) THEN (IF c = 0 THEN <<>> ELSE Limbs(c))
  ELSE <<(raw[i] + c) % 1000>> \o Carry(raw, i + 1, (raw[i] + c) \div 1000)

RECURSIVE Convolve(_, _, _, _)
Convolve(A, B, i, j) ==
  IF j > Len(A) THEN 0 ELSE A[j] * LimbAt(B, i + 1 - j) + Convolve(A, B, i, j + 1)

BigMul(A, B) == Carry([i \in 1..(Len(A) + Len(B) - 1) |-> Convolve(A, B, i, 1)], 1, 0)

BigAdd(A, B) ==
  Carry([i \in 1..(IF Len(A) > Len(B) THEN Len(A) ELSE Len(B)) |-> LimbAt(A, i) + LimbAt(B, i)], 1, 0)

RECURSIVE BigLessFrom(_, _, _)
BigLessFrom(A, B, i) ==
  IF i = 0 THEN FALSE
  ELSE IF LimbAt(A, i) # LimbAt(B, i) THEN LimbAt(A, i) < LimbAt(B, i)
  ELSE BigLessFrom(A, B, i - 1)

BigLess(A, B) == BigLessFrom(A, B, IF Len(A) > Len(B) THEN Len(A) ELSE Len(B))

\* The pivots' reciprocals as fractions <<p, q>>: 1/5, then 1/(4 - p/q) =
\* q/(4q - p).
RECURSIVE Pivot(_)
Pivot(k) ==
  IF k = 0 THEN <<1, 5>>
  ELSE Only({ <<f[2], 4 * f[2] - f[1]>> : f \in { Pivot(k - 1) } })

\* Long division of r/q: the first `digits` decimals in acc, then rounded
\* to nearest on the remainder.
RECURSIVE RoundedDecimals(_, _, _, _)
RoundedDecimals(r, q, digits, acc) ==
  IF digits = 0 THEN acc + (IF 2 * r >= q THEN 1 ELSE 0)
  ELSE RoundedDecimals((r * 10) % q, q, digits - 1, acc * 10 + ((r * 10) \div q))

\* With y = 2L -+ 1 and D = 2*10^7, y/D is (L -+ 1/2)*10^-7.  The
\* polynomial c*x^2 - c*x*(4 or 1) + 1 is positive at y/D iff
\* c*y^2 + D^2 > lin*D*y.
PositiveAt(y, c, lin) ==
  BigLess(BigMul(Limbs(lin), BigMul(Limbs(20000000), Limbs(y))),
          BigAdd(BigMul(Limbs(c), BigMul(Limbs(y), Limbs(y))),
                 BigMul(Limbs(20000000), Limbs(20000000))))

NegativeAt(y, c, lin) ==
  BigLess(BigAdd(BigMul(Limbs(c), BigMul(Limbs(y), Limbs(y))),
                 BigMul(Limbs(20000000), Limbs(20000000))),
          BigMul(Limbs(lin), BigMul(Limbs(20000000), Limbs(y))))

AttributedTo(map, o, kk, k) ==
  /\ (k > 0) => map[k - 1] < kk
  /\ (k < o - 1) => kk <= map[k]

\* C26: every band coefficient which enters a stored pixel was assigned by
\* coarse_to_fine_coefficients: left at fine columns jj > map[0] only,
\* right at jj <= map[n-2] only, farright at coarse columns j <= n-3 only,
\* center at every fine column; the same for top, bottom, farbottom and
\* middle along the rows; and every pixel of fine column jj is stored
\* while the code is at the coarse column j with map[j-1] < jj <= map[j],
\* every row ii synthesized as a row of the coarse row i with
\* map[i-1] < ii <= map[i].
C26_ReadsOnlyAssignedCoefficients ==
  /\ \A p \in 1..Len(out.row_jj) :
       \E jj \in {out.row_jj[p]} : \E j \in {out.row_j[p]} : \E terms \in {out.row_terms[p]} :
         /\ "center" \in terms /\ band.center[jj] # Unset
         /\ ("left" \in terms) =>
              jj > band.last_overlapping_jj[0] /\ band.left[jj] # Unset
         /\ ("right" \in terms) =>
              jj <= band.last_overlapping_jj[mainv.n - 2] /\ band.right[jj] # Unset
         /\ ("farright" \in terms) =>
              j <= mainv.n - 3 /\ band.farright[j] # Unset
         /\ AttributedTo(band.last_overlapping_jj, mainv.n, jj, j)
  /\ InSweep =>
       \E rows \in {RowsOf(syn.kind)} : \E i \in {CoarseRowOf(syn.kind, syn.i, mainv.m)} :
         /\ "middle" \in rows /\ band.middle[syn.ii] # Unset
         /\ ("top" \in rows) =>
              syn.ii > band.last_overlapping_ii[0] /\ band.top[syn.ii] # Unset
         /\ ("bottom" \in rows) =>
              syn.ii <= band.last_overlapping_ii[mainv.m - 2] /\ band.bottom[syn.ii] # Unset
         /\ ("farbottom" \in rows) =>
              i <= mainv.m - 3 /\ band.farbottom[i] # Unset
         /\ AttributedTo(band.last_overlapping_ii, mainv.m, syn.ii, i)
         /\ \A row \in rows : syn.w[row] = RowWeight(band, row, syn.ii, syn.i)

\* The last row of the image complete, ratios not whole: its last pixel
\* took left and center only, and the row has pixels with each of the
\* other sets of terms.
C26_Witness ==
  /\ pc = "free"
  /\ mainv.nn = mainv.n + 1
  /\ mainv.mm = mainv.m + 2
  /\ Len(out.row_jj) = mainv.nn
  /\ out.row_terms[mainv.nn] = {"left", "center"}
  /\ out.row_j[mainv.nn] = mainv.n - 1
  /\ out.row_terms[1] = {"center", "right"}
  /\ out.row_terms[2] = {"center", "right", "farright"}
  /\ \E p \in 1..mainv.nn : out.row_terms[p] = {"left", "center", "right"}
  /\ \E p \in 1..mainv.nn : out.row_terms[p] = {"left", "center", "right", "farright"}

(***************************************************************************)
(* Properties of the grid's addressing (Spec).                             *)
(***************************************************************************)
\* The grid element <<row, column>> lies inside the m by n grid.
InGrid(t) == t[1] \in 0..(mainv.m - 1) /\ t[2] \in 0..(mainv.n - 1)

AppliedTotal(st, k, kk) ==
    (IF k > 0 THEN st.left[kk] ELSE 0)
  + st.center[kk]
  + (IF k < st.o - 1 THEN st.right[kk] ELSE 0)
  + (IF k <= st.o - 3 /\ kk = st.map[k] THEN st.farright[k] ELSE 0)

\* C28: for every fine >= coarse >= 3, whole ratio or not, once
\* coarse_to_fine_coefficients is through the coefficients applied to any
\* fine cell kk, at the coarse cell k it belongs to, sum to exactly
\* 6*coarse/fine (numerators over fine^3: 6*coarse*fine^2).
C28_AppliedCoefficientsSumToSixOverRatio ==
  (ctf.phase = "done") =>
    \A kk \in 0..(ctf.oo - 1) : \A k \in 0..(ctf.o - 1) :
      (FirstFineCell(ctf, k) <= kk /\ kk <= LastFineCell(ctf, k)) =>
        AppliedTotal(ctf, k, kk) = 6 * ctf.o * ctf.oo * ctf.oo

\* A finished call with a ratio which is not whole, in which a fine cell
\* straddles the end of a coarse cell k <= coarse-3 and takes a farright
\* coefficient which is not zero.
C28_Witness ==
  /\ ctf.phase = "done"
  /\ ctf.oo % ctf.o # 0
  /\ \E k \in 0..(ctf.o - 3) :
       /\ ctf.farright[k] # 0
       /\ ctf.left[ctf.map[k]] # Unset
       /\ AppliedTotal(ctf, k, ctf.map[k]) = 6 * ctf.o * ctf.oo * ctf.oo

(***************************************************************************)
(* Properties of the local coordinate x (SpecCoef).                        *)
(***************************************************************************)
\* The state right after the last fine cell which overlaps a coarse cell
\* was dealt with: x was set from the integer numerator.
AfterCrossing ==
  \/ ctf.phase = "interior" /\ ctf.kk = ctf.map[ctf.k - 1] + 1
  \/ ctf.phase = "fix_last"

\* C29: in coarse_to_fine_coefficients every x passed to an antiderivative
\* is in [0, 1]: the double x never exceeds 1 and the rational it stands
\* for has its numerator in 0..fine; at each crossing the integer numerator
\* (kk+1)*coarse - (k+1)*fine is in [0, coarse); and after the last fine
\* cell x equals exactly 1.
C29_ArgumentsAreLocalCoordinates ==
  /\ ~DLess(DOne, ctf.x)
  /\ 0 <= ctf.xn /\ ctf.xn <= ctf.oo
  /\ AfterCrossing => (0 <= ctf.xn /\ ctf.xn < ctf.o)
  /\ (ctf.phase = "done") => (ctf.xn = ctf.oo /\ DEqual(ctf.x, DOne))

(***************************************************************************)
(* Properties of the heap buffers (Spec).                                  *)
(***************************************************************************)
\* C30: whenever scale_up, called for upsizing, has returned, on the
\* successful path or on the read-failure path, none of the three buffers
\* a, input_row, output_row it allocated is still allocated; until it
\* returns all three are.
C30_BuffersReleasedOnEveryReturn ==
  (mainv.calls > 0 /\ mainv.nn >= mainv.n /\ mainv.mm >= mainv.m) =>
    /\ (pc \in {"returned", "exit"}) => heap = {}
    /\ (pc \notin {"returned", "exit", "killed"}) => heap = Buffers

====
